---- MODULE Spec2Model ----
(***************************************************************************)
(* Task lifecycle and run orchestration of the TrendRadar configuration    *)
(* server (config_ui_server.py) and its task store (trendradar/db).        *)
(*                                                                         *)
(* A worker walks through the handler of its call one blocking operation   *)
(* at a time (one file read or write, one store statement, one             *)
(* collaborator call). Spec is the server main() starts, which serves one  *)
(* call after the other; SpecConcurrent gives every inbound call its own   *)
(* concurrent worker (spec section 5), so that the handlers interleave     *)
(* operation by operation.                                                 *)
(***************************************************************************)
EXTENDS Integers, Sequences, FiniteSets, TLC

\* ---------------------------------------------------------------- bounds
MaxReq == 2            \* requests accepted over one behaviour
MaxClock == 1          \* the wall clock is read as 0 .. MaxClock ticks
TicksPerSec == 1       \* clock ticks per second of the "%H:%M:%S" stamps
MaxItems == 3          \* items a smart query matches at most
MsPerTick == 1000 \div TicksPerSec

Workers == {1, 2}      \* the concurrent workers serving inbound calls
Users == {"u1", "u2"}
TaskIds == {"t1", "t2", "t3"}

\* Optional values: None of python is the empty tuple, a value x is <<x>>.
None == <<>>
Some(x) == <<x>>
IsSome(o) == o /= <<>>
Get(o) == o[1]

Range(s) == {s[i] : i \in DOMAIN s}

\* ------------------------------------------------ the two shared resources
\* A text file is the sequence of its lines ("\n".join(lines)); a missing
\* file is None.
BaseFreqLines == <<"# header", "", "[GLOBAL_FILTER]", "g0", "", "[WORD_GROUPS]", "w0", "">>

\* config.yaml: the data tree the program reads and writes, and whether the
\* bytes of the file carry comments and quoting beyond that data (the
\* round-trip loader keeps them in the loaded CommentedMap).
BaseConfigData ==
    [sources |-> Some(<<"p1", "p2">>),     \* platforms.sources ids; None: no "platforms" key
     mode |-> Some("daily"),               \* report.mode; None: no "report" key
     enabled |-> TRUE,                     \* schedule.enabled
     preset |-> "morning_evening",         \* schedule.preset
     ai |-> FALSE]                         \* ai_analysis.enabled

\* _load_config: the round-trip load returns data and comments together.
load_config(file) == file

\* json.dumps(config_data): the JSON text holds the data only.
json_dumps_config(config_data) == config_data.data

\* json.loads(config_backup): a plain dict, no comments attached.
json_loads_config(text) == [data |-> text, comments |-> FALSE]

\* _save_config(data): the file becomes the dump of what it is given.
save_config(config_data) == config_data

\* ------------------------------------------------------ task store values
\* json.dumps(list) as stored in the TEXT columns: the JSON text, token by
\* token, '[', the quoted elements separated by ',', ']'
\* (json_dumps_unique: an encoder that writes each element once).
JsonStr(x) == [tok |-> "str", val |-> x]
JsonSep(c) == [tok |-> c, val |-> ""]
RECURSIVE Unique(_)
Unique(list) ==
    IF list = <<>> THEN <<>>
    ELSE LET init == Unique(SubSeq(list, 1, Len(list) - 1))
             last == list[Len(list)]
         IN IF last \in Range(init) THEN init ELSE Append(init, last)
JsonArray(list) ==
    <<JsonSep("[")>>
    \o [i \in 1..(2 * Len(list) - 1) |->
           IF i % 2 = 1 THEN JsonStr(list[(i + 1) \div 2]) ELSE JsonSep(",")]
    \o <<JsonSep("]")>>
json_dumps_unique(list) == JsonArray(Unique(list))
json_dumps(list) == JsonArray(list)

\* json.loads(text) of such a text: the elements between the brackets.
json_loads(text) ==
    LET elements == SelectSeq(text, LAMBDA k : k.tok = "str")
    IN [i \in DOMAIN elements |-> elements[i].val]

FormatSec(t) == t \div TicksPerSec        \* strftime("%Y-%m-%d %H:%M:%S")

\* _extract_header_lines: the leading blank and comment lines of the file,
\* up to the first section line or the first other line.
IsSectionLine(line) == line \in {"[GLOBAL_FILTER]", "[WORD_GROUPS]"}
IsHeaderLine(line) == line = "" \/ line \in {"# header"}

RECURSIVE extract_header_lines(_)
extract_header_lines(lines) ==
    IF lines = <<>> THEN <<>>
    ELSE IF IsSectionLine(Head(lines)) THEN <<>>
    ELSE IF IsHeaderLine(Head(lines)) THEN <<Head(lines)>> \o extract_header_lines(Tail(lines))
    ELSE <<>>

\* _build_frequency_content(regex, global_filter): /api/config rewrites the
\* file keeping its header; the text ends with one more "\n".
build_frequency_content(regex, global_filter, file) ==
    LET existing_lines == IF IsSome(file) THEN Get(file) ELSE <<>>
        header == extract_header_lines(existing_lines)
    IN header \o <<"", "[GLOBAL_FILTER]", global_filter, "", "[WORD_GROUPS]", regex, "">> \o <<"">>

\* _build_temp_frequency_content(keywords, filters)
build_temp_frequency_content(keywords, filters) ==
    LET global == IF filters /= <<>> THEN <<"[GLOBAL_FILTER]">> \o filters \o <<"">> ELSE <<>>
        groups == [i \in 1..(2 * Len(keywords)) |->
                     IF i % 2 = 1 THEN keywords[(i + 1) \div 2] ELSE ""]
    IN global \o <<"[WORD_GROUPS]">> \o groups

\* _read_frequency_sections: the lines of the [GLOBAL_FILTER] and of the
\* [WORD_GROUPS] section, as they stand before the join; a line in
\* brackets that names neither ends the section.
OtherSectionLines == {"[OTHER]"}
RECURSIVE read_sections(_, _, _)
read_sections(lines, current_section, found) ==
    IF lines = <<>> THEN found
    ELSE LET line == Head(lines)
             rest == Tail(lines)
         IN IF line = "[GLOBAL_FILTER]" THEN read_sections(rest, "GLOBAL_FILTER", found)
            ELSE IF line = "[WORD_GROUPS]" THEN read_sections(rest, "WORD_GROUPS", found)
            ELSE IF line \in OtherSectionLines THEN read_sections(rest, "none", found)
            ELSE IF current_section = "GLOBAL_FILTER"
            THEN read_sections(rest, current_section,
                               [found EXCEPT !.global_filter_lines = Append(@, line)])
            ELSE IF current_section = "WORD_GROUPS"
            THEN read_sections(rest, current_section,
                               [found EXCEPT !.regex_lines = Append(@, line)])
            ELSE read_sections(rest, current_section, found)
read_frequency_sections(file) ==
    IF ~IsSome(file) THEN [global_filter_lines |-> <<>>, regex_lines |-> <<>>]
    ELSE read_sections(Get(file), "none", [global_filter_lines |-> <<>>, regex_lines |-> <<>>])

\* _expand_keywords_with_ai, the collaborator answering in the expected
\* shape: one "/a|b/ => seed" line per seed.
ExpandedLine(seed) ==
    CASE seed = "k1" -> "/k1|K1/ => k1"
      [] seed = "k2" -> "/k2|K2/ => k2"
      [] OTHER -> seed
expand_ok(keywords) == [i \in DOMAIN keywords |-> ExpandedLine(keywords[i])]
\* ... and when the call raises: the except branch returns the input
\* (expand_failed_lost: a fallback that loses the keywords).
expand_failed_lost(keywords) == <<>>
expand_failed(keywords) == keywords

\* ------------------------------------------------------------ requests
NoFields ==
    [name |-> None, keywords |-> None, filters |-> None, platforms |-> None,
     report_mode |-> None, schedule |-> None, expand_keywords |-> None,
     status |-> None, description |-> None]

NoConfigPayload ==
    [regex |-> "", global_filter |-> "", schedule |-> None, custom_plan |-> None,
     report_mode |-> "", ai_analysis_enabled |-> None]

NoReq ==
    [kind |-> "none", keywords |-> None, filters |-> <<>>, platforms |-> <<>>,
     report_mode |-> "current", expand_keywords |-> TRUE, generate_html |-> None,
     task_id |-> None, user_id |-> None, fields |-> NoFields, payload |-> NoConfigPayload,
     query |-> None]

\* POST /api/search bodies (keywords and generate_html may be missing).
SearchRequests ==
    {[NoReq EXCEPT !.kind = "search", !.keywords = Some(<<"k1">>), !.generate_html = Some(TRUE)],
     [NoReq EXCEPT !.kind = "search", !.keywords = Some(<<"k1", "k2">>), !.filters = <<"f1">>,
                   !.platforms = <<"p1">>, !.report_mode = "daily",
                   !.expand_keywords = FALSE, !.generate_html = Some(FALSE)],
     [NoReq EXCEPT !.kind = "search", !.keywords = Some(<<>>), !.generate_html = Some(TRUE)],
     [NoReq EXCEPT !.kind = "search", !.keywords = Some(<<"k2">>)]}

\* POST /api/tasks/{task_id}/execute
ExecuteRequests == {[NoReq EXCEPT !.kind = "execute", !.task_id = Some(t)] : t \in TaskIds}

\* POST /api/tasks bodies: user_id, optional task_id, and the task fields.
TasksPost(u, t, f) == [NoReq EXCEPT !.kind = "tasks", !.user_id = u, !.task_id = t, !.fields = f]
FieldsNamed == [NoFields EXCEPT !.name = Some("n1"), !.keywords = Some(<<"k1">>)]
FieldsFull ==
    [NoFields EXCEPT !.name = Some("n2"), !.keywords = Some(<<"k2", "k1", "k2">>),
                     !.filters = Some(<<"f1">>), !.platforms = Some(<<"p1">>),
                     !.report_mode = Some("daily"), !.expand_keywords = Some(FALSE)]
FieldsNoKeywords == [NoFields EXCEPT !.keywords = Some(<<>>)]
FieldsStatus == [NoFields EXCEPT !.status = Some("paused")]
TasksPostRequests ==
    {TasksPost(Some("u1"), None, FieldsNamed), TasksPost(Some("u2"), None, FieldsFull),
     TasksPost(Some("u2"), None, FieldsNoKeywords), TasksPost(None, None, FieldsNamed),
     TasksPost(Some("u1"), Some("t1"), FieldsFull), TasksPost(Some("u1"), Some("t1"), FieldsNoKeywords),
     TasksPost(Some("u1"), Some("t1"), FieldsStatus), TasksPost(Some("u2"), Some("t1"), FieldsStatus),
     TasksPost(Some("u2"), Some("t1"), FieldsFull), TasksPost(Some("u1"), Some("t3"), FieldsStatus)}

\* GET /api/tasks?user_id=... and GET /api/tasks/{task_id}
TasksGetRequests ==
    {[NoReq EXCEPT !.kind = "tasks_get", !.user_id = u] : u \in {None, Some("u1"), Some("u2")}}
TaskGetRequests == {[NoReq EXCEPT !.kind = "task_get", !.task_id = Some(t)] : t \in TaskIds}

\* POST /api/query/smart bodies: the query, a text given by its characters,
\* may be missing, empty or blank.
QueryRequests ==
    {[NoReq EXCEPT !.kind = "smart_query", !.query = q] :
        q \in {None, Some(<<>>), Some(<<" ", " ">>), Some(<<" ", "q", " ">>), Some(<<"q", " ", "r">>)}}

\* POST /api/config bodies.
ConfigPayloads ==
    {[NoConfigPayload EXCEPT !.regex = "r1", !.global_filter = "g1"],
     [NoConfigPayload EXCEPT !.regex = "r1", !.schedule = Some([enabled |-> FALSE, preset |-> "bogus"])],
     [NoConfigPayload EXCEPT !.schedule = Some([enabled |-> FALSE, preset |-> "custom"]),
                             !.custom_plan = Some([start |-> <<25, 0>>, end |-> <<18, 0>>, frequency_minutes |-> 60])],
     [NoConfigPayload EXCEPT !.schedule = Some([enabled |-> TRUE, preset |-> "custom"]),
                             !.custom_plan = Some([start |-> <<9, 0>>, end |-> <<18, 0>>, frequency_minutes |-> 30]),
                             !.report_mode = "incremental", !.ai_analysis_enabled = Some(TRUE)],
     [NoConfigPayload EXCEPT !.regex = "r1", !.report_mode = "weekly"]}

ConfigRequests == {[NoReq EXCEPT !.kind = "config", !.payload = p] : p \in ConfigPayloads}

\* ------------------------------------------------------------- state
VARIABLES
    RUN_LOCK,      \* _RUN_LOCK: 0 when free, else the worker that acquired it
    freq,          \* config/frequency_words.txt: None or <<lines>>
    cfg,           \* config/config.yaml: [data, comments]
    sched,         \* config/local_schedule.json: None or <<plan>>
    users,         \* rows of table users (id = username)
    tasks,         \* rows of table tasks, by id
    execs,         \* rows of table task_executions, in id order
    now,           \* the wall clock at its last reading, in ticks
    nreq,          \* requests accepted so far
    pc,            \* where each worker is in its handler
    req,           \* the request a worker serves
    loc,           \* the locals of the handler a worker runs
    resp,          \* the response a worker has sent
    hist,          \* history of the worker's run, for stating the properties
    origin         \* history: whether each resource holds "baseline" or "override" content

vars == <<RUN_LOCK, freq, cfg, sched, users, tasks, execs, now, nreq, pc, req, loc, resp, hist, origin>>

NoResult ==
    [success |-> FALSE, duration_ms |-> 0, html_path |-> None, detail |-> None, has_duration |-> FALSE,
     links |-> None]

NoArgs ==
    [keywords |-> <<>>, filters |-> <<>>, platforms |-> <<>>, report_mode |-> "current",
     expand_keywords |-> TRUE, generate_html |-> TRUE, task_id |-> None]

NoLoc ==
    [args |-> NoArgs, start_time |-> 0, expanded_keywords |-> <<>>, freq_file_backup |-> None,
     config_backup |-> None, config_data |-> [data |-> BaseConfigData, comments |-> FALSE],
     exc |-> None, result |-> NoResult,
     user |-> None,                        \* what get_or_create_user returned
     matched_items |-> <<>>,               \* the items of _handle_smart_query before the sort
     search_keywords |-> <<>>,             \* the keywords the collaborator extracted
     all_results |-> <<>>,                 \* the items the crawl brought
     regex_parts |-> <<>>]                 \* _expand_keywords_with_ai: the regex_parts of each entry

\* payload: what the JSON body carries besides success and detail (a task,
\* a task list, executions, query results), None when nothing.
NoResp == [status |-> 0, success |-> FALSE, body |-> "none", payload |-> None]

NoHist ==
    [run |-> 0, arrived_busy |-> FALSE, expand |-> "none", crawl |-> "none",
     add_execution |-> "none", execs_before |-> 0, task_before |-> None,
     users_before |-> <<>>, tasks_before |-> <<>>, persisted |-> <<>>,
     io_fault |-> "none",
     analyzer_config |-> <<>>,             \* the config NewsAnalyzer was given, if it was built
     answer |-> <<>>,                      \* the collaborator's answer to the expansion, if asked
     files_before |-> <<>>,                \* the three files when a POST /api/config arrived
     pre_freq |-> None, pre_cfg |-> [data |-> BaseConfigData, comments |-> FALSE],
     snap_freq |-> "baseline", snap_cfg |-> "baseline"]

\* The store as it is found on disk when the server starts: user u1 has
\* created two tasks through POST /api/tasks.
StoredTask(id, name, user_id, keywords, filters, platforms, report_mode, expand, t) ==
    [id |-> id, name |-> name, user_id |-> user_id,
     keywords |-> json_dumps(keywords), filters |-> Some(json_dumps(filters)),
     platforms |-> Some(json_dumps(platforms)), report_mode |-> report_mode,
     schedule |-> None, expand_keywords |-> expand, status |-> "active",
     description |-> None, created_at |-> FormatSec(t), updated_at |-> FormatSec(t)]

\* A row of table users: id is the PRIMARY KEY, username is UNIQUE.
UserRow(user_id, username) == [id |-> user_id, username |-> username]
SeededUsers == <<UserRow("u1", "u1")>>

SeededTasks ==
    ("t1" :> StoredTask("t1", "n1", "u1", <<"k1">>, <<>>, <<>>, "current", TRUE, 0)) @@
    ("t2" :> StoredTask("t2", "n2", "u1", <<"k2", "k1">>, <<"f1">>, <<"p1">>, "daily", FALSE, 0))

Init ==
    /\ RUN_LOCK = 0
    /\ freq \in {None, Some(BaseFreqLines)}
    /\ cfg \in {[data |-> BaseConfigData, comments |-> c] : c \in BOOLEAN}
    /\ sched = None
    /\ users = SeededUsers
    /\ tasks = SeededTasks
    /\ execs = <<>>
    /\ now = 0
    /\ nreq = 0
    /\ pc = [w \in Workers |-> "idle"]
    /\ req = [w \in Workers |-> NoReq]
    /\ loc = [w \in Workers |-> NoLoc]
    /\ resp = [w \in Workers |-> NoResp]
    /\ hist = [w \in Workers |-> NoHist]
    /\ origin = [freq |-> "baseline", cfg |-> "baseline"]

\* ------------------------------------------------------------ helpers
files == <<freq, cfg, sched>>
store == <<users, tasks, execs>>

\* A worker is Running from the start of a run to its completion: inside
\* _execute_search_task, or inside the locked part of _handle_run.
SearchPcs ==
    {"est_expand", "est_backup_freq", "est_write_freq", "est_load_config",
     "est_save_config", "est_crawl", "est_record", "est_except",
     "est_finally_freq", "est_finally_config"}
RunningPcs == SearchPcs \cup {"run_subprocess"}
Running(w) == pc[w] \in RunningPcs
Busy(w) == \E o \in Workers \ {w} : Running(o)

\* The clock is read: any time at or after its last reading.
Clock == now..MaxClock

\* A worker picks up the next inbound call (the idle workers are
\* interchangeable: the first of them takes it). A serial server, the
\* HTTPServer of main(), accepts a call only when none is being served.
Accept(w, r, serial) ==
    /\ pc[w] = "idle"
    /\ \A o \in Workers : o < w => pc[o] /= "idle"
    /\ serial => \A o \in Workers : pc[o] = "idle"
    /\ nreq < MaxReq
    /\ nreq' = nreq + 1
    /\ req' = [req EXCEPT ![w] = r]
    /\ hist' = [hist EXCEPT ![w] =
                  [NoHist EXCEPT !.run = nreq + 1, !.arrived_busy = Busy(w),
                                 !.execs_before = Len(execs),
                                 !.users_before = users, !.tasks_before = tasks,
                                 !.files_before = IF r.kind = "config" THEN <<freq, cfg, sched>> ELSE <<>>,
                                 !.task_before = IF IsSome(r.task_id) /\ Get(r.task_id) \in DOMAIN tasks
                                                 THEN Some(tasks[Get(r.task_id)]) ELSE None]]

\* _send_json(status, payload), after which the handler returns.
ReplyWith(w, status, success, body, payload) ==
    /\ resp' = [resp EXCEPT ![w] = [status |-> status, success |-> success, body |-> body,
                                    payload |-> payload]]
    /\ pc' = [pc EXCEPT ![w] = "done"]
Reply(w, status, success, body) == ReplyWith(w, status, success, body, None)

Goto(w, label) == pc' = [pc EXCEPT ![w] = label]

\* Task.to_dict, the fields a run reads.
OrEmpty(o) == IF IsSome(o) THEN Get(o) ELSE <<>>
to_dict(task) ==
    [id |-> task.id, name |-> task.name, user_id |-> task.user_id,
     keywords |-> json_loads(task.keywords),
     filters |-> IF IsSome(task.filters) THEN Some(json_loads(Get(task.filters))) ELSE None,
     platforms |-> IF IsSome(task.platforms) THEN Some(json_loads(Get(task.platforms))) ELSE None,
     report_mode |-> task.report_mode, schedule |-> task.schedule,
     expand_keywords |-> task.expand_keywords, status |-> task.status,
     description |-> task.description,
     created_at |-> task.created_at, updated_at |-> task.updated_at]

\* ------------------------------------------------ POST /api/search
\* _handle_search: validation, then _execute_search_task without task_id.
\* not keywords or not isinstance(keywords, list) or len(keywords) == 0
\* (invalid_keywords_absent_only: an empty list passes).
invalid_keywords_absent_only(keywords) == ~IsSome(keywords)
invalid_keywords(keywords) == ~IsSome(keywords) \/ Get(keywords) = <<>>

handle_search(w, requests, serial) ==
    \E r \in requests :
        /\ Accept(w, r, serial)
        /\ UNCHANGED <<RUN_LOCK, files, store, origin>>
        /\ IF invalid_keywords(r.keywords)
           THEN Reply(w, 400, FALSE, "keywords required") /\ UNCHANGED <<loc, now>>
           ELSE IF ~IsSome(r.generate_html)
           THEN Reply(w, 400, FALSE, "generate_html required") /\ UNCHANGED <<loc, now>>
           ELSE \E t \in Clock :
                /\ now' = t
                /\ loc' = [loc EXCEPT ![w] = [NoLoc EXCEPT
                       !.args = [keywords |-> Get(r.keywords), filters |-> r.filters,
                                 platforms |-> r.platforms, report_mode |-> r.report_mode,
                                 expand_keywords |-> r.expand_keywords,
                                 generate_html |-> Get(r.generate_html), task_id |-> None],
                       !.start_time = t]]
                /\ Goto(w, "est_expand")
                /\ UNCHANGED resp

\* ------------------------------ POST /api/tasks/{task_id}/execute
\* TaskDatabase.get_task: SELECT * FROM tasks WHERE id = ?
\* (get_task_any: some task is found for an id that has none).
get_task_any(rows, task_id) ==
    IF task_id \in DOMAIN rows THEN Some(rows[task_id])
    ELSE Some(rows[CHOOSE id \in DOMAIN rows : TRUE])
get_task(rows, task_id) ==
    IF task_id \in DOMAIN rows THEN Some(rows[task_id]) ELSE None

\* _handle_task_execute: get_task, then _execute_search_task with the
\* task's configuration and its task_id.
handle_task_execute(w, requests, serial) ==
    \E r \in requests :
        /\ Accept(w, r, serial)
        /\ UNCHANGED <<RUN_LOCK, files, store, origin>>
        /\ IF ~IsSome(get_task(tasks, Get(r.task_id)))
           THEN Reply(w, 404, FALSE, "task not found") /\ UNCHANGED <<loc, now>>
           ELSE \E t \in Clock :
                LET task_dict == to_dict(Get(get_task(tasks, Get(r.task_id)))) IN
                /\ now' = t
                /\ loc' = [loc EXCEPT ![w] = [NoLoc EXCEPT
                       !.args = [keywords |-> task_dict.keywords,
                                 filters |-> OrEmpty(task_dict.filters),
                                 platforms |-> OrEmpty(task_dict.platforms),
                                 report_mode |-> task_dict.report_mode,
                                 expand_keywords |-> task_dict.expand_keywords,
                                 generate_html |-> TRUE, task_id |-> r.task_id],
                       !.start_time = t]]
                /\ Goto(w, "est_expand")
                /\ UNCHANGED resp

\* ------------------------------------------- _execute_search_task
\* 1. expansion, if enabled; a raising collaborator call falls back to the
\* input inside _expand_keywords_with_ai.
est_expand(w) ==
    /\ pc[w] = "est_expand"
    /\ \E outcome \in {"ok", "raise"} :
        LET a == loc[w].args
            how == IF a.expand_keywords THEN outcome ELSE "off"
            expanded_keywords ==
                IF ~a.expand_keywords THEN a.keywords
                ELSE IF outcome = "ok" THEN expand_ok(a.keywords)
                ELSE expand_failed(a.keywords)
        IN /\ loc' = [loc EXCEPT ![w].expanded_keywords = expanded_keywords]
           /\ hist' = [hist EXCEPT ![w].expand = how]
    /\ Goto(w, "est_backup_freq")
    /\ UNCHANGED <<RUN_LOCK, files, store, now, nreq, req, resp, origin>>

\* --------------------- _expand_keywords_with_ai on the answer's shape
\* The collaborator's answer: the call raises (network, timeout, content
\* that is no JSON object), or the content parses to an object whose
\* "expanded" may be missing and whose entries may lack "original" or
\* "keywords". Terms are given by their characters, seeds are the
\* request's keywords.
Letters ==
    {"a", "b", "c", "d", "e", "f", "g", "h", "i", "j", "k", "l", "m",
     "n", "o", "p", "q", "r", "s", "t", "u", "v", "w", "x", "y", "z",
     "A", "B", "C", "D", "E", "F", "G", "H", "I", "J", "K", "L", "M",
     "N", "O", "P", "Q", "R", "S", "T", "U", "V", "W", "X", "Y", "Z"}

\* the str of a sequence of characters
RECURSIVE str_of(_)
str_of(chars) == IF chars = <<>> THEN "" ELSE Head(chars) \o str_of(Tail(chars))

\* "|".join(regex_parts)
RECURSIVE join(_, _)
join(sep, parts) ==
    IF parts = <<>> THEN ""
    ELSE IF Len(parts) = 1 THEN parts[1]
    ELSE parts[1] \o sep \o join(sep, Tail(parts))

\* re.match(r'^[a-zA-Z\s]+$', kw)
is_english(kw) == kw /= <<>> /\ \A i \in DOMAIN kw : kw[i] \in Letters \cup {" "}

\* kw.replace(' ', r'\s+')
kw_escaped(kw) == str_of([i \in DOMAIN kw |-> IF kw[i] = " " THEN "\\s+" ELSE kw[i]])

\* The regex_parts of one entry: item.get("keywords", []), English words
\* between \b.
regex_parts_of(item) ==
    LET kws == IF IsSome(item.keywords) THEN Get(item.keywords) ELSE <<>>
    IN [i \in DOMAIN kws |->
            IF is_english(kws[i]) THEN "\\b" \o kw_escaped(kws[i]) \o "\\b" ELSE str_of(kws[i])]

\* regex_pattern = f"/{'|'.join(regex_parts)}/ => {original}", with
\* item.get("original", "")
regex_pattern(item) ==
    "/" \o join("|", regex_parts_of(item)) \o "/ => "
        \o (IF IsSome(item.original) THEN Get(item.original) ELSE "")

\* The entries of result.get("expanded", [])
expanded_of(answer) == IF IsSome(answer.expanded) THEN Get(answer.expanded) ELSE <<>>

\* _expand_keywords_with_ai(keywords) given the collaborator's answer: one
\* pattern per entry of "expanded", or the input when the call raised.
expand_keywords_with_ai(keywords, answer) ==
    IF answer.raises THEN expand_failed(keywords)
    ELSE [i \in DOMAIN expanded_of(answer) |-> regex_pattern(expanded_of(answer)[i])]

\* The terms a collaborator gives for a seed when it follows the prompt.
SeedTerms(seed) ==
    CASE seed = "k1" -> << <<"k", "1">>, <<"K", "1">> >>
      [] seed = "k2" -> << <<"k", "2">>, <<"K", "2">> >>
      [] OTHER -> <<>>
Digits == <<"0", "1", "2", "3", "4", "5", "6", "7", "8", "9">>

\* The prompt's rule 6: at most 10 keywords per topic.
MaxExpandedTerms == 10

Answer(expanded) == [raises |-> FALSE, expanded |-> expanded]
AnswerRaises == [raises |-> TRUE, expanded |-> None]
Entry(original, keywords) == [original |-> original, keywords |-> keywords]
PerSeed(keywords, entries) == Answer(Some([i \in DOMAIN keywords |-> entries[keywords[i]]]))

\* The answers taken into account for the seeds `keywords`: the call
\* raises; the expected shape; English terms; no "expanded"; an empty
\* "expanded"; entries without "keywords"; entries without "original";
\* one term more than the prompt allows.
CollaboratorAnswers(keywords) ==
    LET Seeds == {keywords[i] : i \in DOMAIN keywords} IN
    {AnswerRaises,
     PerSeed(keywords, [seed \in Seeds |-> Entry(Some(seed), Some(SeedTerms(seed)))]),
     PerSeed(keywords, [seed \in Seeds |->
                 Entry(Some(seed), Some(<< <<"A", "p", "p", "l", "e">>, <<"T", "i", "m", " ", "C", "o", "o", "k">> >>))]),
     Answer(None),
     Answer(Some(<<>>)),
     PerSeed(keywords, [seed \in Seeds |-> Entry(Some(seed), None)]),
     PerSeed(keywords, [seed \in Seeds |-> Entry(None, Some(SeedTerms(seed)))]),
     PerSeed(keywords, [seed \in Seeds |->
                 Entry(Some(seed), Some([i \in 1..(MaxExpandedTerms + 1) |->
                                            IF i <= MaxExpandedTerms THEN <<"k", Digits[i]>> ELSE <<"K", "1">>]))])}

\* The answer has the shape the prompt asks for: an entry per seed, each
\* with its "original" and a non-empty "keywords".
ExpectedShape(keywords, answer) ==
    /\ ~answer.raises
    /\ IsSome(answer.expanded)
    /\ Len(Get(answer.expanded)) = Len(keywords)
    /\ keywords /= <<>>
    /\ \A i \in DOMAIN keywords :
          /\ Get(answer.expanded)[i].original = Some(keywords[i])
          /\ IsSome(Get(answer.expanded)[i].keywords)
          /\ Get(Get(answer.expanded)[i].keywords) /= <<>>

\* 1. expansion, if enabled, following _expand_keywords_with_ai through
\* the parsing of the collaborator's answer.
est_expand_answer(w) ==
    /\ pc[w] = "est_expand"
    /\ \E answer \in CollaboratorAnswers(loc[w].args.keywords) :
        LET a == loc[w].args
            how == IF ~a.expand_keywords THEN "off"
                   ELSE IF answer.raises THEN "raise"
                   ELSE IF ExpectedShape(a.keywords, answer) THEN "ok" ELSE "shape"
        IN /\ loc' = [loc EXCEPT
                        ![w].expanded_keywords =
                            IF a.expand_keywords THEN expand_keywords_with_ai(a.keywords, answer)
                            ELSE a.keywords,
                        ![w].regex_parts =
                            IF a.expand_keywords /\ ~answer.raises
                            THEN [i \in DOMAIN expanded_of(answer) |-> regex_parts_of(expanded_of(answer)[i])]
                            ELSE <<>>]
           /\ hist' = [hist EXCEPT ![w].expand = how,
                                   ![w].answer = IF a.expand_keywords THEN Some(answer) ELSE None]
    /\ Goto(w, "est_backup_freq")
    /\ UNCHANGED <<RUN_LOCK, files, store, now, nreq, req, resp, origin>>

\* 2. FREQUENCY_FILE.read_text() if the file exists.
est_backup_freq(w) ==
    /\ pc[w] = "est_backup_freq"
    /\ loc' = [loc EXCEPT ![w].freq_file_backup = freq]
    /\ hist' = [hist EXCEPT ![w].snap_freq = origin.freq]
    /\ Goto(w, "est_write_freq")
    /\ UNCHANGED <<RUN_LOCK, files, store, now, nreq, req, resp, origin>>

\* FREQUENCY_FILE.write_text(temp_freq_content): the override of the
\* filter resource.
est_write_freq(w) ==
    /\ pc[w] = "est_write_freq"
    /\ freq' = Some(build_temp_frequency_content(loc[w].expanded_keywords, loc[w].args.filters))
    /\ hist' = [hist EXCEPT ![w].pre_freq = freq]
    /\ origin' = [origin EXCEPT !.freq = "override"]
    /\ Goto(w, "est_load_config")
    /\ UNCHANGED <<RUN_LOCK, cfg, sched, store, now, nreq, req, loc, resp>>

\* 3. config_data = _load_config(); config_backup = json.dumps(config_data)
est_load_config(w) ==
    /\ pc[w] = "est_load_config"
    /\ loc' = [loc EXCEPT ![w].config_data = load_config(cfg),
                          ![w].config_backup = Some(json_dumps_config(load_config(cfg)))]
    /\ hist' = [hist EXCEPT ![w].snap_cfg = origin.cfg]
    /\ Goto(w, "est_save_config")
    /\ UNCHANGED <<RUN_LOCK, files, store, now, nreq, req, resp, origin>>

\* The platform and report-mode override of config_data
\* (override_config_narrows_always: the filter applied without the
\* `if platforms` test).
override_config_narrows_always(config_data, platforms, report_mode) ==
    LET d == config_data.data
        sources ==
            IF IsSome(d.sources)
            THEN Some(SelectSeq(Get(d.sources), LAMBDA s : s \in Range(platforms)))
            ELSE d.sources
    IN [config_data EXCEPT !.data = [d EXCEPT !.sources = sources, !.mode = Some(report_mode)]]
override_config(config_data, platforms, report_mode) ==
    LET d == config_data.data
        sources ==
            IF platforms /= <<>> /\ IsSome(d.sources)
            THEN Some(SelectSeq(Get(d.sources), LAMBDA s : s \in Range(platforms)))
            ELSE d.sources
    IN [config_data EXCEPT !.data = [d EXCEPT !.sources = sources, !.mode = Some(report_mode)]]

\* _save_config(config_data): the override of the settings resource.
est_save_config(w) ==
    /\ pc[w] = "est_save_config"
    /\ LET config_data == override_config(loc[w].config_data, loc[w].args.platforms,
                                          loc[w].args.report_mode)
       IN /\ cfg' = save_config(config_data)
          /\ loc' = [loc EXCEPT ![w].config_data = config_data]
    /\ hist' = [hist EXCEPT ![w].pre_cfg = cfg]
    /\ origin' = [origin EXCEPT !.cfg = "override"]
    /\ Goto(w, "est_crawl")
    /\ UNCHANGED <<RUN_LOCK, freq, sched, store, now, nreq, req, resp>>

\* 6. the result built after analyzer.run() returned.
build_result(generate_html, latest_html, duration_ms) ==
    IF generate_html /\ ~IsSome(latest_html)
    THEN [success |-> FALSE, duration_ms |-> duration_ms, html_path |-> None,
          detail |-> Some("html generation failed"), has_duration |-> TRUE, links |-> None]
    ELSE [success |-> TRUE, duration_ms |-> duration_ms,
          html_path |-> IF generate_html THEN latest_html ELSE None,
          detail |-> None, has_duration |-> TRUE,
          links |-> IF generate_html THEN None ELSE Some(<<>>)]        \* result["links"] = []

\* int((end_time - start_time) * 1000)
duration_ms_of(start_time, end_time) == (end_time - start_time) * MsPerTick

\* The result set analyzer.run() persists when it returns: a hot-list item
\* and a feed item, their titles given by their words.
CrawlPersisted ==
    <<[title |-> <<"k1", "x">>, source_type |-> "hotlist", ranks |-> <<1>>, published_at |-> 0],
      [title |-> <<"y">>, source_type |-> "RSS", ranks |-> <<>>, published_at |-> 1]>>

\* trendradar.core.load_config(): the settings resource as the crawl reads it.
core_load_config(file) == file.data

\* config["schedule"]["enabled"] = False on the loaded config
\* (disable_schedule_skipped: the config passed on as loaded).
disable_schedule_skipped(config) == config
disable_schedule(config) == [config EXCEPT !.enabled = FALSE]

\* 4.-6. the delegated crawl/analyze, given the loaded config with the
\* schedule disabled: it returns with or without a report on disk, or
\* raises.
est_crawl(w) ==
    /\ pc[w] = "est_crawl"
    /\ \E outcome \in {"html", "nohtml", "raise"}, t \in Clock :
        /\ hist' = [hist EXCEPT ![w].crawl = outcome,
                                ![w].analyzer_config = Some(disable_schedule(core_load_config(cfg))),
                                ![w].persisted = IF outcome = "raise" THEN <<>> ELSE CrawlPersisted]
        /\ now' = t
        /\ IF outcome = "raise"
           THEN /\ loc' = [loc EXCEPT ![w].exc = Some("crawl failed")]
                /\ Goto(w, "est_except")
           ELSE LET latest_html == IF outcome = "html" THEN Some("latest.html") ELSE None
                    duration_ms == duration_ms_of(loc[w].start_time, t)
                IN /\ loc' = [loc EXCEPT ![w].result =
                                 build_result(loc[w].args.generate_html, latest_html, duration_ms)]
                   /\ Goto(w, IF IsSome(loc[w].args.task_id) THEN "est_record" ELSE "est_finally_freq")
    /\ UNCHANGED <<RUN_LOCK, files, store, nreq, req, resp, origin>>

\* TaskDatabase.add_execution: one INSERT into task_executions
\* (add_execution_twice: the row inserted twice).
add_execution_twice(rows, execution, t) ==
    Append(Append(rows, [execution EXCEPT !.executed_at = FormatSec(t)]),
           [execution EXCEPT !.executed_at = FormatSec(t)])
add_execution(rows, execution, t) ==
    Append(rows, [execution EXCEPT !.executed_at = FormatSec(t)])

\* except Exception as e: print(...): the result built before the store
\* write stands (record_failed_fails_run: the failed write fails the run).
record_failed_fails_run(result) ==
    [result EXCEPT !.success = FALSE, !.detail = Some("history write failed")]
record_failed(result) == result

\* 7. the history row of a run that reached its result; a failing store
\* write is printed and dropped.
est_record(w) ==
    /\ pc[w] = "est_record"
    /\ LET result == loc[w].result
           execution == [task_id |-> Get(loc[w].args.task_id), html_path |-> result.html_path,
                         matched_count |-> 0, duration_ms |-> result.duration_ms,
                         status |-> IF result.success THEN "success" ELSE "failed",
                         error_message |-> result.detail, executed_at |-> None]
       IN \/ \E t \in Clock :
                /\ now' = t
                /\ execs' = add_execution(execs, execution, t)
                /\ hist' = [hist EXCEPT ![w].add_execution = "ok"]
                /\ UNCHANGED loc
          \/ /\ UNCHANGED <<execs, now>>
             /\ hist' = [hist EXCEPT ![w].add_execution = "raise"]
             /\ loc' = [loc EXCEPT ![w].result = record_failed(result)]
    /\ Goto(w, "est_finally_freq")
    /\ UNCHANGED <<RUN_LOCK, files, users, tasks, nreq, req, resp, origin>>

\* return {"success": False, "detail": f"... {exc}"}: no duration_ms
\* (except_result_swallowed: the exception passed over, the run a success).
except_result_swallowed(exc) ==
    [success |-> TRUE, duration_ms |-> 0, html_path |-> None,
     detail |-> None, has_duration |-> FALSE, links |-> None]
except_result(exc) ==
    [success |-> FALSE, duration_ms |-> 0, html_path |-> None,
     detail |-> Some("search failed"), has_duration |-> FALSE, links |-> None]

\* except Exception: the failed row, if there is a task_id, and the failed
\* result {"success": False, "detail": ...}.
est_except(w) ==
    /\ pc[w] = "est_except"
    /\ IF IsSome(loc[w].args.task_id)
       THEN \/ \E t \in Clock :
                 LET execution == [task_id |-> Get(loc[w].args.task_id), html_path |-> None,
                                   matched_count |-> 0,
                                   duration_ms |-> duration_ms_of(loc[w].start_time, t),
                                   status |-> "failed", error_message |-> loc[w].exc,
                                   executed_at |-> None]
                 IN /\ now' = t
                    /\ execs' = add_execution(execs, execution, t)
                    /\ hist' = [hist EXCEPT ![w].add_execution = "ok"]
            \/ /\ UNCHANGED <<execs, now>>
               /\ hist' = [hist EXCEPT ![w].add_execution = "raise"]
       ELSE UNCHANGED <<execs, hist, now>>
    /\ loc' = [loc EXCEPT ![w].result = except_result(loc[w].exc)]
    /\ Goto(w, "est_finally_freq")
    /\ UNCHANGED <<RUN_LOCK, files, users, tasks, nreq, req, resp, origin>>

\* finally: the filter resource is written back if a backup was taken.
restore_freq(freq_file_backup, file) ==
    IF freq_file_backup /= None THEN freq_file_backup ELSE file

est_finally_freq(w) ==
    /\ pc[w] = "est_finally_freq"
    /\ freq' = restore_freq(loc[w].freq_file_backup, freq)
    /\ origin' = [origin EXCEPT !.freq = IF loc[w].freq_file_backup /= None
                                         THEN hist[w].snap_freq ELSE @]
    /\ Goto(w, "est_finally_config")
    /\ UNCHANGED <<RUN_LOCK, cfg, sched, store, now, nreq, req, loc, resp, hist>>

\* finally: the settings resource is rewritten from the JSON backup.
restore_config(config_backup, file) ==
    IF config_backup /= None THEN save_config(json_loads_config(Get(config_backup))) ELSE file

est_finally_config(w) ==
    /\ pc[w] = "est_finally_config"
    /\ cfg' = restore_config(loc[w].config_backup, cfg)
    /\ origin' = [origin EXCEPT !.cfg = IF loc[w].config_backup /= None
                                        THEN hist[w].snap_cfg ELSE @]
    /\ Goto(w, "est_respond")
    /\ UNCHANGED <<RUN_LOCK, freq, sched, store, now, nreq, req, loc, resp, hist>>

\* A read or write of one of the two resources raises (OSError) and leaves
\* the resource as it was. In steps 2 and 3 the exception is caught by the
\* except branch of _execute_search_task.
override_fault(w) ==
    /\ loc' = [loc EXCEPT ![w].exc = Some("io fault")]
    /\ hist' = [hist EXCEPT ![w].io_fault = "override"]
    /\ Goto(w, "est_except")
    /\ UNCHANGED <<RUN_LOCK, files, store, now, nreq, req, resp, origin>>

est_backup_freq_fault(w) == pc[w] = "est_backup_freq" /\ freq /= None /\ override_fault(w)
est_write_freq_fault(w) == pc[w] = "est_write_freq" /\ override_fault(w)
est_load_config_fault(w) == pc[w] = "est_load_config" /\ override_fault(w)
est_save_config_fault(w) == pc[w] = "est_save_config" /\ override_fault(w)

\* In the finally clause the exception leaves _execute_search_task, what
\* is left of the clause is not run: _handle_task_execute catches it and
\* answers 500, _handle_search does not and the connection is closed
\* without a response (status 0).
restore_fault(w, resource) ==
    /\ hist' = [hist EXCEPT ![w].io_fault = resource]
    /\ IF req[w].kind = "execute"
       THEN Reply(w, 500, FALSE, "execute failed")
       ELSE Reply(w, 0, FALSE, "connection closed")
    /\ UNCHANGED <<RUN_LOCK, files, store, now, nreq, req, loc, origin>>

est_finally_freq_fault(w) ==
    pc[w] = "est_finally_freq" /\ loc[w].freq_file_backup /= None /\ restore_fault(w, "restore_freq")
est_finally_config_fault(w) ==
    pc[w] = "est_finally_config" /\ loc[w].config_backup /= None /\ restore_fault(w, "restore_cfg")

\* Back in the handler: 200 for a successful result, 500 for a failed one.
est_respond(w) ==
    /\ pc[w] = "est_respond"
    /\ ReplyWith(w, IF loc[w].result.success THEN 200 ELSE 500, loc[w].result.success, "RunResult",
                 Some(loc[w].result))
    /\ UNCHANGED <<RUN_LOCK, files, store, now, nreq, req, loc, hist, origin>>

\* ---------------------------------------------------- POST /api/run
\* _handle_run: the non-blocking acquire of _RUN_LOCK; 409 when it is held.
\* _RUN_LOCK.acquire(blocking=False): True when the lock was free
\* (acquire_always: an acquire that never fails).
acquire_always(lock) == TRUE
acquire(lock) == lock = 0

handle_run(w, serial) ==
    /\ Accept(w, [NoReq EXCEPT !.kind = "run"], serial)
    /\ UNCHANGED <<files, store, now, loc, origin>>
    /\ IF ~acquire(RUN_LOCK)
       THEN Reply(w, 409, FALSE, "conflict") /\ UNCHANGED RUN_LOCK
       ELSE RUN_LOCK' = w /\ Goto(w, "run_subprocess") /\ UNCHANGED resp

\* finally: _RUN_LOCK.release(), however the try block was left
\* (release_unless_raised: the release at the end of the try block).
release_unless_raised(lock, outcome) == IF outcome = "raise" THEN lock ELSE 0
release(lock, outcome) == 0

\* The subprocess ends with return code 0 or not, or building the
\* strategy, running the subprocess or sending the response raises; the
\* finally clause releases the lock in every case.
run_subprocess(w) ==
    /\ pc[w] = "run_subprocess"
    /\ \E outcome \in {"rc0", "rc1", "raise"} :
        /\ CASE outcome = "rc0" -> Reply(w, 200, TRUE, "run")
             [] outcome = "rc1" -> Reply(w, 502, FALSE, "run")
             [] OTHER -> Reply(w, 0, FALSE, "fault")
        /\ RUN_LOCK' = release(RUN_LOCK, outcome)
    /\ UNCHANGED <<files, store, now, nreq, req, loc, hist, origin>>

\* ------------------------------------------------- POST /api/config
\* do_POST, /api/config: frequency_words.txt is rewritten first.
handle_config_post(w, requests, serial) ==
    \E r \in requests :
        /\ Accept(w, r, serial)
        /\ freq' = Some(build_frequency_content(r.payload.regex, r.payload.global_filter, freq))
        /\ origin' = [origin EXCEPT !.freq = "baseline"]
        /\ Goto(w, "cp_schedule")
        /\ UNCHANGED <<RUN_LOCK, cfg, sched, store, now, loc, resp>>

\* _load_timeline_presets() without a timeline.yaml
TimelinePresets == {"always_on", "morning_evening", "office_hours", "night_owl", "custom"}

\* _valid_hhmm on a "dd:dd" string, given as <<hours, minutes>>
valid_hhmm(value) == value[1] \in 0..23 /\ value[2] \in 0..59

\* The schedule section and the custom plan.
cp_schedule(w) ==
    /\ pc[w] = "cp_schedule"
    /\ LET p == req[w].payload IN
       IF ~IsSome(p.schedule)
       THEN Goto(w, "cp_report") /\ UNCHANGED <<cfg, sched, resp>>
       ELSE LET schedule == Get(p.schedule)
                data == load_config(cfg)
                saved == [data EXCEPT !.data.enabled = schedule.enabled,
                                      !.data.preset = schedule.preset]
            IN IF schedule.preset \notin TimelinePresets
               THEN Reply(w, 400, FALSE, "invalid preset") /\ UNCHANGED <<cfg, sched>>
               ELSE /\ cfg' = save_config(saved)
                    /\ IF schedule.preset = "custom" /\ IsSome(p.custom_plan)
                       THEN LET plan == Get(p.custom_plan) IN
                            IF ~(valid_hhmm(plan.start) /\ valid_hhmm(plan.end))
                            THEN Reply(w, 400, FALSE, "invalid HH:MM") /\ UNCHANGED sched
                            ELSE IF plan.frequency_minutes <= 0
                            THEN Reply(w, 400, FALSE, "invalid frequency") /\ UNCHANGED sched
                            ELSE /\ sched' = Some(plan)
                                 /\ Goto(w, "cp_report") /\ UNCHANGED resp
                       ELSE Goto(w, "cp_report") /\ UNCHANGED <<sched, resp>>
    /\ UNCHANGED <<RUN_LOCK, freq, store, now, nreq, req, loc, hist, origin>>

ReportModes == {"daily", "current", "incremental"}

\* The report_mode section.
cp_report(w) ==
    /\ pc[w] = "cp_report"
    /\ LET report_mode == req[w].payload.report_mode IN
       IF report_mode = ""
       THEN Goto(w, "cp_ai") /\ UNCHANGED <<cfg, resp>>
       ELSE IF report_mode \notin ReportModes
       THEN Reply(w, 400, FALSE, "invalid report_mode") /\ UNCHANGED cfg
       ELSE /\ cfg' = save_config([load_config(cfg) EXCEPT !.data.mode = Some(report_mode)])
            /\ Goto(w, "cp_ai") /\ UNCHANGED resp
    /\ UNCHANGED <<RUN_LOCK, freq, sched, store, now, nreq, req, loc, hist, origin>>

\* The ai_analysis_enabled section and the 200 response.
cp_ai(w) ==
    /\ pc[w] = "cp_ai"
    /\ LET ai == req[w].payload.ai_analysis_enabled IN
       IF IsSome(ai)
       THEN cfg' = save_config([load_config(cfg) EXCEPT !.data.ai = Get(ai)])
       ELSE UNCHANGED cfg
    /\ Reply(w, 200, TRUE, "updated")
    /\ UNCHANGED <<RUN_LOCK, freq, sched, store, now, nreq, req, loc, hist, origin>>

\* -------------------------------------------------- POST /api/tasks
\* TaskDatabase.get_user: SELECT * FROM users WHERE id = ?
get_user(rows, user_id) ==
    IF \E i \in DOMAIN rows : rows[i].id = user_id
    THEN Some(rows[CHOOSE i \in DOMAIN rows : rows[i].id = user_id])
    ELSE None

\* _handle_tasks_post up to get_or_create_user's get_user.
handle_tasks_post(w, requests, serial) ==
    \E r \in requests :
        /\ Accept(w, r, serial)
        /\ UNCHANGED <<RUN_LOCK, files, store, now, origin>>
        /\ IF ~IsSome(r.user_id)
           THEN Reply(w, 400, FALSE, "user_id required") /\ UNCHANGED loc
           ELSE LET user == get_user(users, Get(r.user_id)) IN
                /\ loc' = [loc EXCEPT ![w].user = user]
                /\ Goto(w, IF IsSome(user) THEN "tp_task" ELSE "tp_create_user")
                /\ UNCHANGED resp

\* TaskDatabase.create_user: the INSERT, whose IntegrityError (id or
\* username already there) is passed over
\* (create_user_unchecked: a table without the key constraints).
create_user_unchecked(rows, user_id, username) == Append(rows, UserRow(user_id, username))
create_user(rows, user_id, username) ==
    IF \E i \in DOMAIN rows : rows[i].id = user_id \/ rows[i].username = username
    THEN rows
    ELSE Append(rows, UserRow(user_id, username))

\* get_or_create_user past a get_user that found nothing: create_user with
\* the id as username, which returns the row its SELECT finds.
tp_create_user(w) ==
    /\ pc[w] = "tp_create_user"
    /\ LET user_id == Get(req[w].user_id)
           rows == create_user(users, user_id, user_id)
       IN /\ users' = rows
          /\ loc' = [loc EXCEPT ![w].user = get_user(rows, user_id)]
    /\ Goto(w, IF req[w].kind = "tasks_get" THEN "tg_list" ELSE "tp_task")
    /\ UNCHANGED <<RUN_LOCK, files, tasks, execs, now, nreq, req, resp, hist, origin>>

\* Task.from_dict of the create payload followed by create_task's stamps
\* (from_dict_inactive: a task born paused).
from_dict_inactive(id, user_id, fields, t) ==
    [id |-> id, name |-> Get(fields.name), user_id |-> user_id,
     keywords |-> json_dumps(Get(fields.keywords)),
     filters |-> Some(json_dumps(OrEmpty(fields.filters))),
     platforms |-> Some(json_dumps(OrEmpty(fields.platforms))),
     report_mode |-> IF IsSome(fields.report_mode) THEN Get(fields.report_mode) ELSE "current",
     schedule |-> fields.schedule,
     expand_keywords |-> IF IsSome(fields.expand_keywords) THEN Get(fields.expand_keywords) ELSE TRUE,
     status |-> "paused", description |-> fields.description,
     created_at |-> FormatSec(t), updated_at |-> FormatSec(t)]
from_dict(id, user_id, fields, t) ==
    [id |-> id, name |-> Get(fields.name), user_id |-> user_id,
     keywords |-> json_dumps(Get(fields.keywords)),
     filters |-> Some(json_dumps(OrEmpty(fields.filters))),
     platforms |-> Some(json_dumps(OrEmpty(fields.platforms))),
     report_mode |-> IF IsSome(fields.report_mode) THEN Get(fields.report_mode) ELSE "current",
     schedule |-> fields.schedule,
     expand_keywords |-> IF IsSome(fields.expand_keywords) THEN Get(fields.expand_keywords) ELSE TRUE,
     status |-> "active", description |-> fields.description,
     created_at |-> FormatSec(t), updated_at |-> FormatSec(t)]

\* The ownership check of the update branch (may_update_any: no check).
may_update_any(task, user_id) == TRUE
may_update(task, user_id) == task.user_id = user_id

\* get_task and the ownership check (update), or validation and
\* create_task (create).
tp_task(w) ==
    /\ pc[w] = "tp_task"
    /\ LET r == req[w]
           user_id == Get(r.user_id)
       IN IF IsSome(r.task_id)
          THEN /\ UNCHANGED <<tasks, now>>
               /\ IF Get(r.task_id) \notin DOMAIN tasks
                  THEN Reply(w, 404, FALSE, "task not found")
                  ELSE IF ~may_update(tasks[Get(r.task_id)], user_id)
                  THEN Reply(w, 403, FALSE, "forbidden")
                  ELSE Goto(w, "tp_update") /\ UNCHANGED resp
          ELSE IF ~IsSome(r.fields.name) \/ OrEmpty(r.fields.keywords) = <<>>
          THEN Reply(w, 400, FALSE, "name and keywords required") /\ UNCHANGED <<tasks, now>>
          ELSE \E id \in TaskIds, t \in Clock :
                  /\ now' = t
                  /\ IF id \in DOMAIN tasks
                     THEN Reply(w, 500, FALSE, "IntegrityError") /\ UNCHANGED tasks
                     ELSE /\ tasks' = tasks @@ (id :> from_dict(id, user_id, r.fields, t))
                          /\ ReplyWith(w, 201, TRUE, "created",
                                       Some(to_dict(from_dict(id, user_id, r.fields, t))))
    /\ UNCHANGED <<RUN_LOCK, files, users, execs, nreq, req, loc, hist, origin>>

\* TaskDatabase.update_task: the supplied columns and updated_at
\* (update_task_replaces_row: the row written anew from the supplied
\* columns; update_task_stamps_both: created_at stamped as well).
update_task_replaces_row(task, fields, t) ==
    [id |-> task.id, name |-> IF IsSome(fields.name) THEN Get(fields.name) ELSE "",
     user_id |-> "",
     keywords |-> IF IsSome(fields.keywords) THEN json_dumps(Get(fields.keywords)) ELSE task.keywords,
     filters |-> IF IsSome(fields.filters) THEN Some(json_dumps(Get(fields.filters))) ELSE None,
     platforms |-> IF IsSome(fields.platforms) THEN Some(json_dumps(Get(fields.platforms))) ELSE None,
     report_mode |-> IF IsSome(fields.report_mode) THEN Get(fields.report_mode) ELSE "current",
     schedule |-> fields.schedule,
     expand_keywords |-> IF IsSome(fields.expand_keywords) THEN Get(fields.expand_keywords) ELSE TRUE,
     status |-> IF IsSome(fields.status) THEN Get(fields.status) ELSE "active",
     description |-> fields.description,
     created_at |-> task.created_at, updated_at |-> FormatSec(t)]
update_task_stamps_both(task, fields, t) ==
    [task EXCEPT
        !.name = IF IsSome(fields.name) THEN Get(fields.name) ELSE @,
        !.keywords = IF IsSome(fields.keywords) THEN json_dumps(Get(fields.keywords)) ELSE @,
        !.filters = IF IsSome(fields.filters) THEN Some(json_dumps(Get(fields.filters))) ELSE @,
        !.platforms = IF IsSome(fields.platforms) THEN Some(json_dumps(Get(fields.platforms))) ELSE @,
        !.report_mode = IF IsSome(fields.report_mode) THEN Get(fields.report_mode) ELSE @,
        !.schedule = IF IsSome(fields.schedule) THEN fields.schedule ELSE @,
        !.expand_keywords = IF IsSome(fields.expand_keywords) THEN Get(fields.expand_keywords) ELSE @,
        !.status = IF IsSome(fields.status) THEN Get(fields.status) ELSE @,
        !.description = IF IsSome(fields.description) THEN fields.description ELSE @,
        !.created_at = FormatSec(t),
        !.updated_at = FormatSec(t)]
update_task(task, fields, t) ==
    [task EXCEPT
        !.name = IF IsSome(fields.name) THEN Get(fields.name) ELSE @,
        !.keywords = IF IsSome(fields.keywords) THEN json_dumps(Get(fields.keywords)) ELSE @,
        !.filters = IF IsSome(fields.filters) THEN Some(json_dumps(Get(fields.filters))) ELSE @,
        !.platforms = IF IsSome(fields.platforms) THEN Some(json_dumps(Get(fields.platforms))) ELSE @,
        !.report_mode = IF IsSome(fields.report_mode) THEN Get(fields.report_mode) ELSE @,
        !.schedule = IF IsSome(fields.schedule) THEN fields.schedule ELSE @,
        !.expand_keywords = IF IsSome(fields.expand_keywords) THEN Get(fields.expand_keywords) ELSE @,
        !.status = IF IsSome(fields.status) THEN Get(fields.status) ELSE @,
        !.description = IF IsSome(fields.description) THEN fields.description ELSE @,
        !.updated_at = FormatSec(t)]

tp_update(w) ==
    /\ pc[w] = "tp_update"
    /\ LET task_id == Get(req[w].task_id) IN
       IF task_id \in DOMAIN tasks
       THEN \E t \in Clock :
            /\ now' = t
            /\ tasks' = [tasks EXCEPT ![task_id] = update_task(@, req[w].fields, t)]
            /\ ReplyWith(w, 200, TRUE, "updated",
                         Some(to_dict(update_task(tasks[task_id], req[w].fields, t))))
       ELSE Reply(w, 500, FALSE, "update failed") /\ UNCHANGED <<tasks, now>>
    /\ UNCHANGED <<RUN_LOCK, files, users, execs, nreq, req, loc, hist, origin>>

\* ------------------------------------- GET /api/tasks, /api/tasks/{id}
\* ORDER BY key DESC over the rows I: every order of the rows in which no
\* row comes before one of a greater key (SQL leaves the order of rows
\* with equal keys open).
DescOrders(I, key) ==
    {p \in [1..Cardinality(I) -> I] :
        \A a, b \in 1..Cardinality(I) : a < b => (p[a] /= p[b] /\ key[p[a]] >= key[p[b]])}

\* TaskDatabase.get_user_tasks(user_id): the results the SELECT ... WHERE
\* user_id = ? ORDER BY created_at DESC may give.
get_user_tasks(rows, user_id) ==
    LET ids == {id \in DOMAIN rows : rows[id].user_id = user_id}
        created_at == [id \in ids |-> rows[id].created_at]
    IN {[i \in DOMAIN p |-> rows[p[i]]] : p \in DescOrders(ids, created_at)}

\* TaskExecution(**row).to_dict() of row number id.
execution_to_dict(id, row) ==
    [id |-> id, task_id |-> row.task_id, html_path |-> row.html_path,
     matched_count |-> row.matched_count, duration_ms |-> row.duration_ms,
     status |-> row.status, error_message |-> row.error_message,
     executed_at |-> row.executed_at]

\* TaskDatabase.get_task_executions(task_id, limit): the results the
\* SELECT ... WHERE task_id = ? ORDER BY executed_at DESC LIMIT ? may give.
get_task_executions(rows, task_id, limit) ==
    LET ids == {id \in DOMAIN rows : rows[id].task_id = task_id}
        executed_at == [id \in ids |-> rows[id].executed_at]
        n == IF Cardinality(ids) < limit THEN Cardinality(ids) ELSE limit
    IN {[i \in 1..n |-> execution_to_dict(p[i], rows[p[i]])] : p \in DescOrders(ids, executed_at)}

\* _handle_tasks_get up to get_or_create_user's get_user.
handle_tasks_get(w, requests, serial) ==
    \E r \in requests :
        /\ Accept(w, r, serial)
        /\ UNCHANGED <<RUN_LOCK, files, store, now, origin>>
        /\ IF ~IsSome(r.user_id)
           THEN Reply(w, 400, FALSE, "user_id required") /\ UNCHANGED loc
           ELSE LET user == get_user(users, Get(r.user_id)) IN
                /\ loc' = [loc EXCEPT ![w].user = user]
                /\ Goto(w, IF IsSome(user) THEN "tg_list" ELSE "tp_create_user")
                /\ UNCHANGED resp

\* get_user_tasks and the 200 response with the tasks' to_dict.
tg_list(w) ==
    /\ pc[w] = "tg_list"
    /\ \E found \in get_user_tasks(tasks, Get(req[w].user_id)) :
          ReplyWith(w, 200, TRUE, "tasks", Some([i \in DOMAIN found |-> to_dict(found[i])]))
    /\ UNCHANGED <<RUN_LOCK, files, store, now, nreq, req, loc, hist, origin>>

\* The limit _handle_task_get_single passes to get_task_executions.
TaskGetLimit == 5

\* _handle_task_get_single: get_task, 404 if there is none, else the task
\* and its latest executions.
handle_task_get_single(w, requests, serial) ==
    \E r \in requests :
        /\ Accept(w, r, serial)
        /\ UNCHANGED <<RUN_LOCK, files, store, now, loc, origin>>
        /\ IF Get(r.task_id) \notin DOMAIN tasks
           THEN Reply(w, 404, FALSE, "task not found")
           ELSE \E executions \in get_task_executions(execs, Get(r.task_id), TaskGetLimit) :
                  ReplyWith(w, 200, TRUE, "task",
                            Some([task |-> to_dict(tasks[Get(r.task_id)]),
                                  executions |-> executions]))

\* ------------------------------------------------ POST /api/query/smart
\* str.strip(): the text without its leading and trailing blanks.
strip(text) ==
    LET solid == {i \in DOMAIN text : text[i] /= " "} IN
    IF solid = {} THEN <<>>
    ELSE SubSeq(text, CHOOSE i \in solid : \A j \in solid : i <= j,
                      CHOOSE i \in solid : \A j \in solid : i >= j)

\* What the crawl of the hot-list platforms and the feeds may bring: a
\* hot-list item has the ranks it was seen at, a feed item has none and has
\* its publish time (0: the empty string of an item without one; the
\* timestamps are texts of one format, ordered as the times are). A title
\* is a text given by its characters.
Item(title, source_type, ranks, published_at) ==
    [title |-> title, source_type |-> source_type, ranks |-> ranks, published_at |-> published_at]
ItemPool ==
    {Item(<<"A", "b">>, "hotlist", <<1, 2, 3>>, 0), Item(<<"a", "B", "c">>, "hotlist", <<5>>, 0),
     Item(<<"c">>, "hotlist", <<1>>, 0), Item(<<"B", "a">>, "hotlist", <<6, 4, 2>>, 0),
     Item(<<"a", "b">>, "RSS", <<>>, 1), Item(<<"C", "A", "B">>, "RSS", <<>>, 2)}

max_results == 100

\* all_results as the crawl leaves it: up to MaxItems different items in
\* any order, or one item more than max_results.
LargeCrawl ==
    [i \in 1..(max_results + 1) |-> Item(<<"a", "b">>, "hotlist", <<3 - (i % 3)>>, 0)]
CrawledLists ==
    UNION {{l \in [1..n -> ItemPool] : \A i, j \in 1..n : i /= j => l[i] /= l[j]} : n \in 0..MaxItems}
        \cup {LargeCrawl}

\* search_keywords as the collaborator may extract them: mixed case, more
\* than one, an empty one among them.
SearchKeywordLists ==
    {<<>>, <<<<"A", "B">>>>, <<<<"c">>, <<"b", "a">>>>, <<<<>>, <<"b", "c">>>>, <<<<"b", "b">>>>}

\* str.lower()
lower(text) ==
    [i \in DOMAIN text |->
        CASE text[i] = "A" -> "a" [] text[i] = "B" -> "b" [] text[i] = "C" -> "c" [] OTHER -> text[i]]

\* kw in title: kw is a run of consecutive characters of title.
contains(title, kw) ==
    \E i \in 1..(Len(title) + 1) :
        i + Len(kw) - 1 <= Len(title) /\ SubSeq(title, i, i + Len(kw) - 1) = kw

\* [str(k).lower() for k in search_keywords if k]
search_keywords_lower(search_keywords) ==
    LET kept == SelectSeq(search_keywords, LAMBDA k : k /= <<>>)
    IN [i \in DOMAIN kept |-> lower(kept[i])]

\* any(kw in title_lower for kw in search_keywords_lower)
\* (matches_case_sensitive: the title taken as it is written).
matches_case_sensitive(title, keywords_lower) ==
    \E i \in DOMAIN keywords_lower : contains(title, keywords_lower[i])
matches(title, keywords_lower) ==
    \E i \in DOMAIN keywords_lower : contains(lower(title), keywords_lower[i])

\* Step 3: the items of all_results whose title matches, in their order.
match_items(all_results, search_keywords) ==
    SelectSeq(all_results, LAMBDA item : matches(item.title, search_keywords_lower(search_keywords)))

\* min(ranks)
min(ranks) == CHOOSE x \in Range(ranks) : \A y \in Range(ranks) : x <= y

\* sort_key(item) (sort_key_fewest_first: len(ranks) not negated).
sort_key_fewest_first(item) ==
    IF item.ranks /= <<>>
    THEN <<1, Len(item.ranks), min(item.ranks)>>
    ELSE <<2, item.published_at, 0>>
sort_key(item) ==
    IF item.ranks /= <<>>
    THEN <<1, -Len(item.ranks), min(item.ranks)>>
    ELSE <<2, item.published_at, 0>>

\* a < b of two python tuples of three numbers.
tuple_lt(a, b) ==
    \/ a[1] < b[1]
    \/ a[1] = b[1] /\ a[2] < b[2]
    \/ a[1] = b[1] /\ a[2] = b[2] /\ a[3] < b[3]

\* matched_items.sort(key=sort_key): ascending and stable, which is the
\* items of the least key in their order, then those of the next key, and
\* so on.
RECURSIVE sorted_by_keys(_, _)
sorted_by_keys(keys, list) ==
    IF keys = {} THEN <<>>
    ELSE LET least == CHOOSE k \in keys : \A o \in keys : ~tuple_lt(o, k)
         IN SelectSeq(list, LAMBDA item : sort_key(item) = least)
                \o sorted_by_keys(keys \ {least}, list)
sort(list) == sorted_by_keys({sort_key(list[i]) : i \in DOMAIN list}, list)

\* _handle_smart_query: 400 for a query that is empty once stripped.
handle_smart_query(w, requests, serial) ==
    \E r \in requests :
        /\ Accept(w, r, serial)
        /\ UNCHANGED <<RUN_LOCK, files, store, now, loc, origin>>
        /\ IF strip(OrEmpty(r.query)) = <<>>
           THEN Reply(w, 400, FALSE, "query required")
           ELSE Goto(w, "sq_extract") /\ UNCHANGED resp

\* Step 1: the collaborator extracts the search keywords; it may give none,
\* answer with text that is not JSON (502), or raise (500).
sq_extract(w) ==
    /\ pc[w] = "sq_extract"
    /\ \/ \E search_keywords \in SearchKeywordLists :
             IF search_keywords = <<>>
             THEN /\ ReplyWith(w, 200, FALSE, "no keywords", Some([results |-> <<>>]))
                  /\ UNCHANGED loc
             ELSE /\ loc' = [loc EXCEPT ![w].search_keywords = search_keywords]
                  /\ Goto(w, "sq_search")
                  /\ UNCHANGED resp
       \/ Reply(w, 502, FALSE, "bad collaborator answer") /\ UNCHANGED loc
       \/ Reply(w, 500, FALSE, "query failed") /\ UNCHANGED loc
    /\ UNCHANGED <<RUN_LOCK, files, store, now, nreq, req, hist, origin>>

\* Steps 2 and 3: the crawl of the sources and the filter by keyword, which
\* leave matched_items, or raise (500).
sq_search(w) ==
    /\ pc[w] = "sq_search"
    /\ \/ \E all_results \in CrawledLists :
             /\ loc' = [loc EXCEPT ![w].all_results = all_results,
                                   ![w].matched_items = match_items(all_results, loc[w].search_keywords)]
             /\ Goto(w, "sq_rank")
             /\ UNCHANGED resp
       \/ Reply(w, 500, FALSE, "query failed") /\ UNCHANGED loc
    /\ UNCHANGED <<RUN_LOCK, files, store, now, nreq, req, hist, origin>>

\* The sort, the cut to max_results and the 200 response.
sq_rank(w) ==
    /\ pc[w] = "sq_rank"
    /\ LET ranked == sort(loc[w].matched_items)
           n == IF Len(ranked) < max_results THEN Len(ranked) ELSE max_results
       IN ReplyWith(w, 200, TRUE, "results", Some([results |-> SubSeq(ranked, 1, n)]))
    /\ UNCHANGED <<RUN_LOCK, files, store, now, nreq, req, loc, hist, origin>>

\* ------------------------------------------------------ environment
\* The worker is done with its call and takes the next one.
finish(w) ==
    /\ pc[w] = "done"
    /\ pc' = [pc EXCEPT ![w] = "idle"]
    /\ req' = [req EXCEPT ![w] = NoReq]
    /\ loc' = [loc EXCEPT ![w] = NoLoc]
    /\ resp' = [resp EXCEPT ![w] = NoResp]
    /\ hist' = [hist EXCEPT ![w] = NoHist]
    /\ UNCHANGED <<RUN_LOCK, files, store, now, nreq, origin>>

\* The steps of a call that has been accepted.
serve(w) ==
    \/ est_expand(w)
    \/ est_backup_freq(w)
    \/ est_write_freq(w)
    \/ est_load_config(w)
    \/ est_save_config(w)
    \/ est_crawl(w)
    \/ est_record(w)
    \/ est_except(w)
    \/ est_finally_freq(w)
    \/ est_finally_config(w)
    \/ est_respond(w)
    \/ run_subprocess(w)
    \/ cp_schedule(w)
    \/ cp_report(w)
    \/ cp_ai(w)
    \/ tp_create_user(w)
    \/ tp_task(w)
    \/ tp_update(w)
    \/ tg_list(w)
    \/ finish(w)

\* main(): HTTPServer serves one call at a time, each to its end.
Next ==
    \E w \in Workers :
        \/ handle_search(w, SearchRequests, TRUE)
        \/ handle_task_execute(w, ExecuteRequests, TRUE)
        \/ handle_run(w, TRUE)
        \/ handle_config_post(w, ConfigRequests, TRUE)
        \/ handle_tasks_post(w, TasksPostRequests, TRUE)
        \/ handle_tasks_get(w, TasksGetRequests, TRUE)
        \/ handle_task_get_single(w, TaskGetRequests, TRUE)
        \/ serve(w)

Spec == Init /\ [][Next]_vars

\* The scheduling model of the design (section 5): every inbound call has
\* its own concurrent worker, so the handlers interleave. The clock stands
\* at its bound, so that time adds no cases.
ConcurrentSearchRequests ==
    {[NoReq EXCEPT !.kind = "search", !.keywords = Some(<<"k1">>), !.generate_html = Some(TRUE)]}
ConcurrentExecuteRequests == {[NoReq EXCEPT !.kind = "execute", !.task_id = Some(t)] : t \in {"t1", "t2"}}
ConcurrentConfigRequests ==
    {[NoReq EXCEPT !.kind = "config", !.payload = [NoConfigPayload EXCEPT !.regex = "r1", !.global_filter = "g1"]]}
ConcurrentTasksPostRequests ==
    {TasksPost(Some("u2"), None, FieldsFull), TasksPost(Some("u1"), Some("t1"), FieldsStatus)}
ConcurrentTasksGetRequests == {[NoReq EXCEPT !.kind = "tasks_get", !.user_id = Some("u2")]}

InitConcurrent ==
    /\ RUN_LOCK = 0
    /\ freq = Some(BaseFreqLines)
    /\ cfg = [data |-> BaseConfigData, comments |-> FALSE]
    /\ sched = None
    /\ users = SeededUsers
    /\ tasks = SeededTasks
    /\ execs = <<>>
    /\ now = MaxClock
    /\ nreq = 0
    /\ pc = [w \in Workers |-> "idle"]
    /\ req = [w \in Workers |-> NoReq]
    /\ loc = [w \in Workers |-> NoLoc]
    /\ resp = [w \in Workers |-> NoResp]
    /\ hist = [w \in Workers |-> NoHist]
    /\ origin = [freq |-> "baseline", cfg |-> "baseline"]

NextConcurrent ==
    \E w \in Workers :
        \/ handle_search(w, ConcurrentSearchRequests, FALSE)
        \/ handle_task_execute(w, ConcurrentExecuteRequests, FALSE)
        \/ handle_run(w, FALSE)
        \/ handle_config_post(w, ConcurrentConfigRequests, FALSE)
        \/ handle_tasks_post(w, ConcurrentTasksPostRequests, FALSE)
        \/ handle_tasks_get(w, ConcurrentTasksGetRequests, FALSE)
        \/ serve(w)

SpecConcurrent == InitConcurrent /\ [][NextConcurrent]_vars

\* The task store alone under concurrent workers: the calls of
\* POST /api/tasks and GET /api/tasks, which all begin with
\* get_or_create_user, interleaved step by step.
\* (FieldsWeekly, FieldsBogusStatus: bodies whose report_mode and status
\* are none of the values models.py names.)
FieldsWeekly ==
    [NoFields EXCEPT !.name = Some("n3"), !.keywords = Some(<<"k1">>), !.report_mode = Some("weekly")]
FieldsBogusStatus == [NoFields EXCEPT !.status = Some("bogus")]
StoreTasksPostRequests ==
    {TasksPost(Some("u2"), None, FieldsFull), TasksPost(Some("u2"), Some("t1"), FieldsStatus),
     TasksPost(Some("u1"), Some("t1"), FieldsStatus),
     TasksPost(Some("u1"), None, FieldsWeekly), TasksPost(Some("u1"), Some("t1"), FieldsBogusStatus)}
StoreTasksGetRequests ==
    {[NoReq EXCEPT !.kind = "tasks_get", !.user_id = Some(u)] : u \in Users}

NextStore ==
    \E w \in Workers :
        \/ handle_tasks_post(w, StoreTasksPostRequests, FALSE)
        \/ handle_tasks_get(w, StoreTasksGetRequests, FALSE)
        \/ tp_create_user(w)
        \/ tp_task(w)
        \/ tp_update(w)
        \/ tg_list(w)
        \/ finish(w)

SpecStore == InitConcurrent /\ [][NextStore]_vars

\* The execution history on the serial server, found with one row: task t1
\* has been run once in the clock second in which the calls arrive.
SeededExecs ==
    add_execution(<<>>, [task_id |-> "t1", html_path |-> Some("latest.html"), matched_count |-> 0,
                         duration_ms |-> 0, status |-> "success", error_message |-> None,
                         executed_at |-> None], 0)
HistoryExecuteRequests == {[NoReq EXCEPT !.kind = "execute", !.task_id = Some(t)] : t \in {"t1", "t2"}}

InitHistory ==
    /\ RUN_LOCK = 0
    /\ freq = Some(BaseFreqLines)
    /\ cfg = [data |-> BaseConfigData, comments |-> FALSE]
    /\ sched = None
    /\ users = SeededUsers
    /\ tasks = SeededTasks
    /\ execs = SeededExecs
    /\ now = 0
    /\ nreq = 0
    /\ pc = [w \in Workers |-> "idle"]
    /\ req = [w \in Workers |-> NoReq]
    /\ loc = [w \in Workers |-> NoLoc]
    /\ resp = [w \in Workers |-> NoResp]
    /\ hist = [w \in Workers |-> NoHist]
    /\ origin = [freq |-> "baseline", cfg |-> "baseline"]

NextHistory ==
    \E w \in Workers :
        \/ handle_task_execute(w, HistoryExecuteRequests, TRUE)
        \/ handle_task_get_single(w, TaskGetRequests, TRUE)
        \/ est_expand(w)
        \/ est_backup_freq(w)
        \/ est_write_freq(w)
        \/ est_load_config(w)
        \/ est_save_config(w)
        \/ est_crawl(w)
        \/ est_record(w)
        \/ est_except(w)
        \/ est_finally_freq(w)
        \/ est_finally_config(w)
        \/ est_respond(w)
        \/ finish(w)

SpecHistory == InitHistory /\ [][NextHistory]_vars

\* The runs on the serial server when reads and writes of the two
\* resources may fail. The clock stands at its bound, so that time adds no
\* cases.
NextFaults ==
    \E w \in Workers :
        \/ handle_search(w, ConcurrentSearchRequests, TRUE)
        \/ handle_task_execute(w, HistoryExecuteRequests, TRUE)
        \/ est_expand(w)
        \/ est_backup_freq(w)
        \/ est_backup_freq_fault(w)
        \/ est_write_freq(w)
        \/ est_write_freq_fault(w)
        \/ est_load_config(w)
        \/ est_load_config_fault(w)
        \/ est_save_config(w)
        \/ est_save_config_fault(w)
        \/ est_crawl(w)
        \/ est_record(w)
        \/ est_except(w)
        \/ est_finally_freq(w)
        \/ est_finally_freq_fault(w)
        \/ est_finally_config(w)
        \/ est_finally_config_fault(w)
        \/ est_respond(w)
        \/ finish(w)

SpecFaults == InitConcurrent /\ [][NextFaults]_vars

\* The runs on the serial server when the collaborator's answer to the
\* expansion may have any shape.
NextExpand ==
    \E w \in Workers :
        \/ handle_search(w, ConcurrentSearchRequests, TRUE)
        \/ handle_task_execute(w, HistoryExecuteRequests, TRUE)
        \/ est_expand_answer(w)
        \/ est_backup_freq(w)
        \/ est_write_freq(w)
        \/ est_load_config(w)
        \/ est_save_config(w)
        \/ est_crawl(w)
        \/ est_record(w)
        \/ est_except(w)
        \/ est_finally_freq(w)
        \/ est_finally_config(w)
        \/ est_respond(w)
        \/ finish(w)

SpecExpand == InitConcurrent /\ [][NextExpand]_vars

\* The runs on the serial server whose keywords and filters are any lines
\* of text: plain words, a blank, a section line.
OverrideSearchRequests ==
    {[NoReq EXCEPT !.kind = "search", !.keywords = Some(<<"k1", "k2">>), !.filters = <<"f1", "f2">>,
                   !.expand_keywords = FALSE, !.generate_html = Some(TRUE)],
     [NoReq EXCEPT !.kind = "search", !.keywords = Some(<<"k2", "k1">>), !.generate_html = Some(TRUE)],
     [NoReq EXCEPT !.kind = "search", !.keywords = Some(<<"[GLOBAL_FILTER]", "k2">>), !.filters = <<"f1">>,
                   !.expand_keywords = FALSE, !.generate_html = Some(TRUE)],
     [NoReq EXCEPT !.kind = "search", !.keywords = Some(<<"", "k1">>), !.filters = <<"[OTHER]", "f1">>,
                   !.expand_keywords = FALSE, !.generate_html = Some(TRUE)]}

NextOverride ==
    \E w \in Workers :
        \/ handle_search(w, OverrideSearchRequests, TRUE)
        \/ est_expand(w)
        \/ est_backup_freq(w)
        \/ est_write_freq(w)
        \/ est_load_config(w)
        \/ est_save_config(w)
        \/ est_crawl(w)
        \/ est_except(w)
        \/ est_finally_freq(w)
        \/ est_finally_config(w)
        \/ est_respond(w)
        \/ finish(w)

SpecOverride == Init /\ [][NextOverride]_vars

\* /api/run under concurrent workers, next to ad hoc searches, which do
\* not take the lock.
NextRun ==
    \E w \in Workers :
        \/ handle_run(w, FALSE)
        \/ run_subprocess(w)
        \/ handle_search(w, ConcurrentSearchRequests, FALSE)
        \/ est_expand(w)
        \/ est_backup_freq(w)
        \/ est_write_freq(w)
        \/ est_load_config(w)
        \/ est_save_config(w)
        \/ est_crawl(w)
        \/ est_except(w)
        \/ est_finally_freq(w)
        \/ est_finally_config(w)
        \/ est_respond(w)
        \/ finish(w)

SpecRun == InitConcurrent /\ [][NextRun]_vars

\* TaskDatabase.delete_task(task_id): DELETE FROM tasks WHERE id = ?. No
\* route calls it; it is the store's operation for any other client of
\* the database file. Foreign keys are declared without ON DELETE and
\* sqlite enforces none unless asked to, so no other table is touched.
delete_task(task_id) ==
    /\ task_id \in DOMAIN tasks
    /\ tasks' = [id \in DOMAIN tasks \ {task_id} |-> tasks[id]]
    /\ UNCHANGED <<RUN_LOCK, files, users, execs, now, nreq, pc, req, loc, resp, hist, origin>>

\* Runs of stored tasks on the serial server while tasks may be deleted
\* from the store at any moment.
NextDelete ==
    \/ \E w \in Workers :
        \/ handle_task_execute(w, HistoryExecuteRequests, TRUE)
        \/ est_expand(w)
        \/ est_backup_freq(w)
        \/ est_write_freq(w)
        \/ est_load_config(w)
        \/ est_save_config(w)
        \/ est_crawl(w)
        \/ est_record(w)
        \/ est_except(w)
        \/ est_finally_freq(w)
        \/ est_finally_config(w)
        \/ est_respond(w)
        \/ finish(w)
    \/ \E task_id \in TaskIds : delete_task(task_id)

SpecDelete == InitHistory /\ [][NextDelete]_vars

\* The smart query on the serial server.
NextQuery ==
    \E w \in Workers :
        \/ handle_smart_query(w, QueryRequests, TRUE)
        \/ sq_extract(w)
        \/ sq_search(w)
        \/ sq_rank(w)
        \/ finish(w)

SpecQuery == Init /\ [][NextQuery]_vars

\* ------------------------------------------------------------ properties
\* A run has passed both finally clauses and is about to answer.
Restored(w) == pc[w] = "est_respond"

\* C1: after a run's Restore the filter resource and the settings resource
\* hold exactly the content they held immediately before the run's
\* Override, whatever the outcome of the run; a filter file that did not
\* exist before the run is part of that content.
C1_RestoreEqualsPreOverride ==
    \A w \in Workers :
        Restored(w) => (freq = hist[w].pre_freq /\ cfg = hist[w].pre_cfg)

\* C2: at most one run is Running at any instant, over /api/search,
\* /api/tasks/{id}/execute and /api/run together, each call served by its
\* own concurrent worker.
C2_AtMostOneRunning == Cardinality({w \in Workers : Running(w)}) <= 1

\* C3: an ExecuteTask or ExecuteAdHoc call that arrives while another run
\* is Running is rejected with Conflict (409) and starts no run.
C3_BusyExecuteRejected ==
    \A w \in Workers :
        (req[w].kind \in {"search", "execute"} /\ hist[w].arrived_busy)
            => (pc[w] = "done" /\ resp[w].status = 409)

\* C4: what an accepted run's Snapshot captures is baseline content, never
\* content written by another run's Override, and once all runs have
\* finished no resource holds a residual override.
C4_SnapshotIsBaseline ==
    /\ \A w \in Workers :
          /\ pc[w] \in SearchPcs \ {"est_expand", "est_backup_freq"} => hist[w].snap_freq = "baseline"
          /\ pc[w] \in SearchPcs \ {"est_expand", "est_backup_freq", "est_write_freq", "est_load_config"}
                => hist[w].snap_cfg = "baseline"
    /\ (\A w \in Workers : ~Running(w) /\ pc[w] /= "est_respond")
          => (origin.freq = "baseline" /\ origin.cfg = "baseline")

\* C5: every step that writes the filter resource or the settings resource
\* is taken by the worker that holds the exclusivity slot (_RUN_LOCK).
C5_WritesHoldLock ==
    [][(freq' /= freq \/ cfg' /= cfg)
          => \E w \in Workers : RUN_LOCK = w /\ pc'[w] /= pc[w]]_vars

\* A worker has answered a call of the given kind.
Answered(w, kind) == pc[w] = "done" /\ req[w].kind = kind

\* The delegated crawl/analyze succeeded: it returned, with the report on
\* disk when one was asked for.
CrawlSucceeded(w) ==
    \/ hist[w].crawl = "html"
    \/ hist[w].crawl = "nohtml" /\ ~loc[w].args.generate_html

\* The rows the store gained since the worker's call arrived.
NewRows(w) == SubSeq(execs, hist[w].execs_before + 1, Len(execs))

\* C6: when the crawl/analyze step raises during ExecuteTask (and the store
\* takes the history write), the caller receives a failed RunResult, not a
\* fault, both resources hold again what they held before the override,
\* and one TaskExecution row with status failed and the error description
\* is recorded for the task.
C6_CrawlFailureHandled ==
    \A w \in Workers :
        (Answered(w, "execute") /\ hist[w].crawl = "raise" /\ hist[w].add_execution = "ok")
            => /\ resp[w].body = "RunResult" /\ ~resp[w].success
               /\ freq = hist[w].pre_freq /\ cfg = hist[w].pre_cfg
               /\ Len(NewRows(w)) = 1
               /\ NewRows(w)[1].task_id = Get(req[w].task_id)
               /\ NewRows(w)[1].status = "failed"
               /\ NewRows(w)[1].error_message = Some("crawl failed")

\* C7: when the expansion call raises, ExecuteAdHoc runs on with exactly
\* the literal input keywords as the expansion (they are what the override
\* of the filter resource is built from), answers with a RunResult, and
\* reports success=true whenever the crawl/analyze succeeds.
C7_ExpanderFailureFallback ==
    \A w \in Workers :
        (req[w].kind = "search" /\ hist[w].expand = "raise")
            => /\ loc[w].expanded_keywords = loc[w].args.keywords
               /\ pc[w] = "est_load_config"
                     => freq = Some(build_temp_frequency_content(loc[w].args.keywords,
                                                                 loc[w].args.filters))
               /\ pc[w] = "done"
                     => /\ resp[w].body = "RunResult"
                        /\ CrawlSucceeded(w) => (resp[w].success /\ resp[w].status = 200)

C7_Witness ==
    \E w \in Workers :
        /\ Answered(w, "search") /\ hist[w].expand = "raise"
        /\ CrawlSucceeded(w) /\ resp[w].success

\* C8: for a run on behalf of a stored task the answer is a RunResult whose
\* success is decided by the crawl/analyze outcome alone, the same whether
\* add_execution succeeded or raised.
C8_HistoryWriteBestEffort ==
    \A w \in Workers :
        (Answered(w, "execute") /\ hist[w].crawl /= "none")
            => /\ hist[w].add_execution \in {"ok", "raise"}
               /\ resp[w].body = "RunResult"
               /\ resp[w].success = (hist[w].crawl = "html")
               /\ resp[w].status = IF hist[w].crawl = "html" THEN 200 ELSE 500

C8_Witness ==
    \E w \in Workers :
        /\ Answered(w, "execute") /\ hist[w].add_execution = "raise"
        /\ hist[w].crawl = "html" /\ resp[w].success

\* C9: an ExecuteTask run on an existing task adds at most one
\* TaskExecution row, and exactly one when the store write succeeds; the
\* row is the task's, its duration_ms is >= 0, and its status is success
\* when the run succeeded.
C9_OneRowPerRun ==
    \A w \in Workers :
        (Answered(w, "execute") /\ hist[w].crawl /= "none")
            => /\ Len(NewRows(w)) <= 1
               /\ hist[w].add_execution = "ok" => Len(NewRows(w)) = 1
               /\ \A i \in DOMAIN NewRows(w) :
                     /\ NewRows(w)[i].task_id = Get(req[w].task_id)
                     /\ NewRows(w)[i].duration_ms >= 0
                     /\ resp[w].success => NewRows(w)[i].status = "success"

C9_Witness ==
    \E w \in Workers :
        /\ Answered(w, "execute") /\ resp[w].success
        /\ Len(NewRows(w)) = 1 /\ NewRows(w)[1].duration_ms > 0

\* The call is an UpdateTask on an existing task by someone else than its
\* owner.
NonOwnerUpdate(w) ==
    /\ req[w].kind = "tasks" /\ IsSome(req[w].user_id) /\ IsSome(req[w].task_id)
    /\ IsSome(hist[w].task_before)
    /\ Get(hist[w].task_before).user_id /= Get(req[w].user_id)

\* C10: UpdateTask by a user other than the task's user_id is answered
\* Forbidden (403) and the task keeps every field, updated_at included.
C10_NonOwnerUpdateForbidden ==
    \A w \in Workers :
        NonOwnerUpdate(w)
            => /\ Get(req[w].task_id) \in DOMAIN tasks
               /\ tasks[Get(req[w].task_id)] = Get(hist[w].task_before)
               /\ pc[w] = "done" => resp[w].status = 403

C10_Witness ==
    \E w \in Workers :
        /\ NonOwnerUpdate(w) /\ pc[w] = "done" /\ resp[w].status = 403
        /\ req[w].fields.status = Some("paused")

\* The call is an UpdateTask (POST /api/tasks with a task_id) that was
\* answered Forbidden or NotFound.
RejectedUpdate(w) ==
    /\ Answered(w, "tasks") /\ IsSome(req[w].task_id)
    /\ resp[w].status \in {403, 404}

\* C11: a rejected UpdateTask (Forbidden or NotFound) leaves the store as
\* it was when the call arrived: the same user rows, task rows and
\* execution rows.
C11_RejectedUpdateNoSideEffect ==
    \A w \in Workers :
        RejectedUpdate(w)
            => /\ users = hist[w].users_before
               /\ tasks = hist[w].tasks_before
               /\ Len(execs) = hist[w].execs_before

\* C12: no step changes the user_id of a stored task or removes the task:
\* every task keeps the user_id it was created with.
C12_OwnerImmutable ==
    [][\A id \in DOMAIN tasks :
          id \in DOMAIN tasks' /\ tasks'[id].user_id = tasks[id].user_id]_vars

C12_Witness ==
    \E w \in Workers :
        /\ Answered(w, "tasks") /\ resp[w].body = "updated"
        /\ tasks[Get(req[w].task_id)] /= Get(hist[w].task_before)
        /\ tasks[Get(req[w].task_id)].user_id = Get(hist[w].task_before).user_id

\* The call is a CreateTask (POST /api/tasks without task_id) whose name is
\* missing or whose keywords are missing or empty.
InvalidCreate(w) ==
    /\ req[w].kind = "tasks" /\ IsSome(req[w].user_id) /\ ~IsSome(req[w].task_id)
    /\ (~IsSome(req[w].fields.name) \/ OrEmpty(req[w].fields.keywords) = <<>>)

\* C13: a CreateTask without name or without keywords is answered with a
\* validation error (400) and persists nothing: no task row and no user
\* row is added.
C13_InvalidCreatePersistsNothing ==
    \A w \in Workers :
        (InvalidCreate(w) /\ pc[w] = "done")
            => /\ resp[w].status = 400
               /\ tasks = hist[w].tasks_before
               /\ users = hist[w].users_before

\* The call is a CreateTask that succeeded (201), an UpdateTask that
\* succeeded (200), a GetTask that found the task (200).
Created(w) == Answered(w, "tasks") /\ resp[w].status = 201
Updated(w) == Answered(w, "tasks") /\ resp[w].status = 200
Fetched(w) == Answered(w, "task_get") /\ resp[w].status = 200

\* C14: a successful CreateTask returns a task whose id is not empty and is
\* the id of no task stored before, with status active and the caller's
\* user_id; the store holds that task under that id, and a GetTask that
\* follows returns what the store holds.
C14_CreateReturnsNewActiveTask ==
    \A w \in Workers :
        /\ Created(w)
              => LET task == Get(resp[w].payload) IN
                 /\ task.id /= "" /\ task.id \notin DOMAIN hist[w].tasks_before
                 /\ task.status = "active"
                 /\ task.user_id = Get(req[w].user_id)
                 /\ task.id \in DOMAIN tasks /\ to_dict(tasks[task.id]) = task
        /\ Fetched(w)
              => Get(resp[w].payload).task = to_dict(tasks[Get(req[w].task_id)])

C14_Witness ==
    \E w \in Workers :
        /\ Fetched(w) /\ Get(req[w].task_id) \notin DOMAIN SeededTasks
        /\ Get(resp[w].payload).task.status = "active"

\* C15: the keywords, filters and platforms sequences supplied to
\* CreateTask or UpdateTask are the ones the task shows afterwards
\* (to_dict of the stored row, which is what the create, update and get
\* responses carry): same elements, same order, duplicates kept.
C15_SequencesRoundTrip ==
    \A w \in Workers :
        /\ (Created(w) \/ Updated(w))
              => LET fields == req[w].fields
                     id == Get(resp[w].payload).id
                     shown == to_dict(tasks[id])
                 IN /\ Get(resp[w].payload) = shown
                    /\ IsSome(fields.keywords) => shown.keywords = Get(fields.keywords)
                    /\ IsSome(fields.filters) => shown.filters = fields.filters
                    /\ IsSome(fields.platforms) => shown.platforms = fields.platforms
        /\ Fetched(w)
              => Get(resp[w].payload).task = to_dict(tasks[Get(req[w].task_id)])
        /\ (Answered(w, "tasks_get") /\ resp[w].status = 200)
              => \A i \in DOMAIN Get(resp[w].payload) :
                    LET task == Get(resp[w].payload)[i]
                    IN task.id \in DOMAIN tasks /\ task = to_dict(tasks[task.id])

C15_Witness ==
    \E w \in Workers :
        /\ Fetched(w)
        /\ Get(resp[w].payload).task.keywords = <<"k2", "k1", "k2">>
        /\ Get(resp[w].payload).task.filters = Some(<<"f1">>)

\* What a column holds after an update: the supplied value if one was
\* supplied, else what it held.
Merged(supplied, old) == IF IsSome(supplied) THEN Get(supplied) ELSE old

\* C16: a successful UpdateTask leaves in the task exactly the supplied
\* fields merged into the previous ones and a new updated_at; id, user_id
\* and created_at are kept, and every other task is as it was.
C16_UpdateMergesSuppliedFields ==
    \A w \in Workers :
        Updated(w)
            => LET fields == req[w].fields
                   id == Get(req[w].task_id)
                   old == Get(hist[w].task_before)
                   new == tasks[id]
               IN /\ new.id = old.id /\ new.user_id = old.user_id
                  /\ new.created_at = old.created_at
                  /\ new.updated_at = FormatSec(now)
                  /\ new.name = Merged(fields.name, old.name)
                  /\ new.keywords = IF IsSome(fields.keywords)
                                    THEN json_dumps(Get(fields.keywords)) ELSE old.keywords
                  /\ new.filters = IF IsSome(fields.filters)
                                   THEN Some(json_dumps(Get(fields.filters))) ELSE old.filters
                  /\ new.platforms = IF IsSome(fields.platforms)
                                     THEN Some(json_dumps(Get(fields.platforms))) ELSE old.platforms
                  /\ new.report_mode = Merged(fields.report_mode, old.report_mode)
                  /\ new.schedule = IF IsSome(fields.schedule) THEN fields.schedule ELSE old.schedule
                  /\ new.expand_keywords = Merged(fields.expand_keywords, old.expand_keywords)
                  /\ new.status = Merged(fields.status, old.status)
                  /\ new.description = IF IsSome(fields.description)
                                       THEN fields.description ELSE old.description
                  /\ DOMAIN tasks = DOMAIN hist[w].tasks_before
                  /\ \A other \in DOMAIN tasks \ {id} : tasks[other] = hist[w].tasks_before[other]

C16_Witness ==
    \E w \in Workers :
        /\ Updated(w) /\ req[w].fields = FieldsStatus
        /\ tasks[Get(req[w].task_id)].status = "paused"
        /\ Get(hist[w].task_before).status = "active"
        /\ tasks[Get(req[w].task_id)].updated_at /= Get(hist[w].task_before).updated_at

\* A worker holds what get_or_create_user returned to its handler.
PastGetOrCreateUser(w) ==
    /\ req[w].kind \in {"tasks", "tasks_get"}
    /\ pc[w] \in {"tp_task", "tp_update", "tg_list"}

\* C17: get_or_create_user is idempotent, also when calls with the same id
\* run concurrently: the users table never holds two rows of one id, every
\* call returns the one row of its id, which the table holds, and no step
\* removes or alters a user row.
C17_GetOrCreateUserIdempotent ==
    /\ [](/\ \A i, j \in DOMAIN users : users[i].id = users[j].id => i = j
          /\ \A w \in Workers :
                PastGetOrCreateUser(w) =>
                    /\ IsSome(loc[w].user)
                    /\ Get(loc[w].user).id = Get(req[w].user_id)
                    /\ Get(loc[w].user) \in Range(users))
    /\ [][\A i \in DOMAIN users : i \in DOMAIN users' /\ users'[i] = users[i]]_vars

\* Two concurrent calls of one new id have both found no row and both run
\* create_user; both have returned and the table holds the id.
C17_Witness ==
    /\ \A w \in Workers :
          /\ PastGetOrCreateUser(w)
          /\ req[w].user_id = Some("u2")
          /\ get_user(hist[w].users_before, "u2") = None
    /\ Cardinality({i \in DOMAIN users : users[i].id = "u2"}) = 1

\* C18: the executions GET /api/tasks/{id} lists are rows of that task, at
\* most the limit of them, and a row recorded later (of greater row id)
\* comes before one recorded earlier, also when both carry the stamp of one
\* clock second; and no step alters or removes a row of the history.
C18_ListExecutionsMostRecentFirst ==
    /\ [](\A w \in Workers :
            Fetched(w) =>
                LET executions == Get(resp[w].payload).executions IN
                /\ Len(executions) <= TaskGetLimit
                /\ \A i \in DOMAIN executions : executions[i].task_id = Get(req[w].task_id)
                /\ \A i, j \in DOMAIN executions : i < j => executions[i].id > executions[j].id)
    /\ [][\A i \in DOMAIN execs : i \in DOMAIN execs' /\ execs'[i] = execs[i]]_vars

\* The call is a smart query answered with its ranked results.
Ranked(w) == Answered(w, "smart_query") /\ resp[w].status = 200 /\ resp[w].success

\* C19: in the results of a smart query every item with ranks comes before
\* every item without, and of two items with ranks the one with more ranks
\* comes first, the one of the lower least rank if they have as many.
C19_RankedFirstByCountThenMin ==
    \A w \in Workers :
        Ranked(w) =>
            LET results == Get(resp[w].payload).results IN
            \A i, j \in DOMAIN results :
                LET a == results[i].ranks
                    b == results[j].ranks
                IN /\ (a /= <<>> /\ b = <<>>) => i < j
                   /\ (a /= <<>> /\ b /= <<>> /\ Len(a) > Len(b)) => i < j
                   /\ (a /= <<>> /\ b /= <<>> /\ Len(a) = Len(b) /\ min(a) < min(b)) => i < j

\* The matched items came as a feed item, ranks [5], ranks [1, 2, 3], and
\* are answered as ranks [1, 2, 3], ranks [5], the feed item.
C19_Witness ==
    \E w \in Workers :
        /\ Ranked(w)
        /\ loc[w].matched_items =
              <<Item(<<"a", "b">>, "RSS", <<>>, 1), Item(<<"a", "B", "c">>, "hotlist", <<5>>, 0),
                Item(<<"A", "b">>, "hotlist", <<1, 2, 3>>, 0)>>
        /\ Get(resp[w].payload).results =
              <<Item(<<"A", "b">>, "hotlist", <<1, 2, 3>>, 0), Item(<<"a", "B", "c">>, "hotlist", <<5>>, 0),
                Item(<<"a", "b">>, "RSS", <<>>, 1)>>

\* C20: of two items without ranks in the results of a smart query, the one
\* published later comes first.
C20_FeedItemsNewestFirst ==
    \A w \in Workers :
        Ranked(w) =>
            LET results == Get(resp[w].payload).results IN
            \A i, j \in DOMAIN results :
                (/\ results[i].ranks = <<>>
                 /\ results[j].ranks = <<>>
                 /\ results[i].published_at > results[j].published_at) => i < j

\* The item's title, lower-cased, contains one of the keywords, lower-cased
\* (Matches), one of the keywords that are not empty (MatchesNonEmpty).
Matches(item, keywords) ==
    \E k \in Range(keywords) : contains(lower(item.title), lower(k))
MatchesNonEmpty(item, keywords) ==
    \E k \in Range(keywords) : k /= <<>> /\ contains(lower(item.title), lower(k))

\* The results are the first max_results items of the matched items in
\* their sorted order.
CutOfSorted(w) ==
    LET results == Get(resp[w].payload).results
        ranked == sort(loc[w].matched_items)
    IN /\ Len(results) = IF Len(ranked) < max_results THEN Len(ranked) ELSE max_results
       /\ \A i \in DOMAIN results : results[i] = ranked[i]

\* C21 as stated: the matched items are exactly the crawled items whose
\* lower-cased title contains a lower-cased keyword, each as often as it
\* was crawled, and the results are their sorted order cut to 100.
C21_MatchesExactlyContaining ==
    \A w \in Workers :
        Ranked(w) =>
            LET all_results == loc[w].all_results
                matched_items == loc[w].matched_items
                hits == {i \in DOMAIN all_results : Matches(all_results[i], loc[w].search_keywords)}
            IN /\ \A j \in DOMAIN matched_items : \E i \in hits : all_results[i] = matched_items[j]
               /\ \A i \in hits : \E j \in DOMAIN matched_items : matched_items[j] = all_results[i]
               /\ Len(matched_items) = Cardinality(hits)
               /\ CutOfSorted(w)

\* C21, amended: the same for the keywords that are not empty (an empty
\* keyword is left out before the match).
C21_MatchesExactlyContainingNonEmpty ==
    \A w \in Workers :
        Ranked(w) =>
            LET all_results == loc[w].all_results
                matched_items == loc[w].matched_items
                hits == {i \in DOMAIN all_results : MatchesNonEmpty(all_results[i], loc[w].search_keywords)}
            IN /\ \A j \in DOMAIN matched_items : \E i \in hits : all_results[i] = matched_items[j]
               /\ \A i \in hits : \E j \in DOMAIN matched_items : matched_items[j] = all_results[i]
               /\ Len(matched_items) = Cardinality(hits)
               /\ CutOfSorted(w)

\* A query whose keyword "AB" matched the 101 crawled items of title "ab",
\* which were answered cut to 100.
C21_Witness ==
    \E w \in Workers :
        /\ Ranked(w)
        /\ loc[w].search_keywords = <<<<"A", "B">>>>
        /\ Len(loc[w].all_results) = max_results + 1
        /\ Len(loc[w].matched_items) = max_results + 1
        /\ Len(Get(resp[w].payload).results) = max_results

\* C22: a POST /api/search without report (generate_html false) that
\* succeeded returns a link list holding every item the run persisted whose
\* title contains one of the request's keywords (each of which is a term
\* of its own expansion).
C22_LinkListHoldsMatches ==
    \A w \in Workers :
        (Answered(w, "search") /\ req[w].generate_html = Some(FALSE) /\ resp[w].success)
            => /\ IsSome(Get(resp[w].payload).links)
               /\ \A i \in DOMAIN hist[w].persisted :
                     Matches(hist[w].persisted[i], [k \in DOMAIN loc[w].args.keywords |-> <<loc[w].args.keywords[k]>>])
                         => hist[w].persisted[i] \in Range(Get(Get(resp[w].payload).links))

\* C23: a POST /api/tasks/{id}/execute for an id the store does not hold
\* is answered 404 in its first step, which calls no expander and no crawl
\* (the call enters no run), writes neither resource and records no row.
C23_ExecuteUnknownTaskDoesNothing ==
    [][\A w \in Workers :
          (/\ pc[w] = "idle" /\ pc'[w] /= "idle"
           /\ req'[w].kind = "execute"
           /\ Get(req'[w].task_id) \notin DOMAIN tasks)
              => /\ pc'[w] = "done"
                 /\ resp'[w].status = 404 /\ ~resp'[w].success
                 /\ files' = files
                 /\ store' = store]_vars

\* An execute of t3, which the store does not hold, has been answered 404.
C23_Witness ==
    \E w \in Workers :
        /\ Answered(w, "execute")
        /\ Get(req[w].task_id) \notin DOMAIN tasks
        /\ resp[w].status = 404
        /\ hist[w].expand = "none" /\ hist[w].crawl = "none"
        /\ Len(execs) = hist[w].execs_before

C25_NoOverrideLeftAfterError ==
    \A w \in Workers :
        (pc[w] = "done" /\ req[w].kind \in {"search", "execute"} /\ ~resp[w].success)
            => /\ hist[w].io_fault /= "restore_freq" => origin.freq /= "override"
               /\ hist[w].io_fault /= "restore_cfg" => origin.cfg /= "override"

\* C26: a failed result of a run (no report generated, or an exception in
\* the run) carries a reason and the elapsed time duration_ms.
C26_FailedResultHasReasonAndDuration ==
    \A w \in Workers :
        (/\ pc[w] = "done" /\ req[w].kind \in {"search", "execute"}
         /\ IsSome(resp[w].payload) /\ ~resp[w].success)
            => /\ IsSome(Get(resp[w].payload).detail)
               /\ Get(resp[w].payload).has_duration

\* C27: a POST /api/config that is answered with a validation error (400)
\* leaves the filter resource, the settings resource and the local schedule
\* file as they were when the request arrived.
C27_RejectedConfigChangesNothing ==
    [][\A w \in Workers :
          (req[w].kind = "config" /\ pc[w] /= "done" /\ pc'[w] = "done" /\ resp'[w].status = 400)
              => <<freq', cfg', sched'>> = hist[w].files_before]_vars

\* Task.status as models.py documents it: active/paused/archived.
TaskStatuses == {"active", "paused", "archived"}

\* C28: whatever CreateTask and UpdateTask requests came, every persisted
\* task has a report_mode among current, daily, incremental and a status
\* among active, paused, archived.
C28_PersistedTasksHaveKnownModeAndStatus ==
    \A id \in DOMAIN tasks :
        tasks[id].report_mode \in ReportModes /\ tasks[id].status \in TaskStatuses

\* C29: when the collaborator's answer parses but has not the expected
\* shape (no "expanded", an empty "expanded", entries without "keywords"
\* or "original"), the expansion is the identity: the run goes on with the
\* seeds as its terms, writes them as the override of the filter resource,
\* and is not aborted.
C29_UnexpectedShapeDegradesToIdentity ==
    \A w \in Workers :
        (req[w].kind \in {"search", "execute"} /\ hist[w].expand = "shape")
            => /\ pc[w] /= "est_expand" => loc[w].expanded_keywords = loc[w].args.keywords
               /\ pc[w] = "est_load_config"
                     => freq = Some(build_temp_frequency_content(loc[w].args.keywords,
                                                                 loc[w].args.filters))
               /\ pc[w] = "done" => hist[w].crawl /= "none"

\* C30: whatever the collaborator answers, each group the expansion
\* builds for a seed has at most 10 terms.
C30_AtMostTenTermsPerSeed ==
    \A w \in Workers :
        \A i \in DOMAIN loc[w].regex_parts :
            /\ Len(loc[w].regex_parts[i]) <= MaxExpandedTerms
            /\ loc[w].expanded_keywords[i] =
                   "/" \o join("|", loc[w].regex_parts[i]) \o "/ => "
                       \o (IF IsSome(expanded_of(Get(hist[w].answer))[i].original)
                           THEN Get(expanded_of(Get(hist[w].answer))[i].original) ELSE "")

\* out is list restricted to the elements in scope, their order kept: the
\* positions of list that hold an element of scope, taken in increasing
\* order, give out.
IsRestriction(list, scope, out) ==
    \E f \in [DOMAIN out -> DOMAIN list] :
        /\ \A i, j \in DOMAIN out : i < j => f[i] < f[j]
        /\ \A i \in DOMAIN out : out[i] = list[f[i]]
        /\ {f[i] : i \in DOMAIN out} = {j \in DOMAIN list : list[j] \in Range(scope)}

\* C31: while a run's override of the settings resource is in place (the
\* crawl/analyze step is about to run), the platform source list is the
\* pre-run list restricted to the requested platforms, order kept, when
\* platforms were requested, and the pre-run list otherwise; report.mode
\* is the requested report mode, and nothing else of the data differs.
C31_OverrideNarrowsSourcesAndSetsMode ==
    \A w \in Workers :
        pc[w] = "est_crawl"
            => LET before == hist[w].pre_cfg.data
                   during == cfg.data
                   scope == loc[w].args.platforms
               IN /\ during.mode = Some(loc[w].args.report_mode)
                  /\ IF scope /= <<>> /\ IsSome(before.sources)
                     THEN /\ IsSome(during.sources)
                          /\ IsRestriction(Get(before.sources), scope, Get(during.sources))
                     ELSE during.sources = before.sources
                  /\ during = [before EXCEPT !.sources = during.sources, !.mode = during.mode]

C31_Witness ==
    \E w \in Workers :
        /\ pc[w] = "est_crawl"
        /\ loc[w].args.platforms = <<"p1">>
        /\ hist[w].pre_cfg.data.sources = Some(<<"p1", "p2">>)
        /\ cfg.data.sources = Some(<<"p1">>)
        /\ cfg.data.mode = Some(loc[w].args.report_mode)
        /\ hist[w].pre_cfg.data.mode /= cfg.data.mode

\* The keyword groups of the lines of a section: the runs of lines between
\* blank lines.
RECURSIVE GroupsOf(_, _)
GroupsOf(lines, group) ==
    IF lines = <<>> THEN (IF group = <<>> THEN <<>> ELSE <<group>>)
    ELSE IF Head(lines) = ""
    THEN (IF group = <<>> THEN <<>> ELSE <<group>>) \o GroupsOf(Tail(lines), <<>>)
    ELSE GroupsOf(Tail(lines), Append(group, Head(lines)))

\* What a reader of the filter resource finds in it: the filters of the
\* global-exclusion section and the keyword groups.
FiltersSeen == SelectSeq(read_frequency_sections(freq).global_filter_lines, LAMBDA line : line /= "")
GroupsSeen == GroupsOf(read_frequency_sections(freq).regex_lines, <<>>)
OneGroupEach(terms) == [i \in DOMAIN terms |-> <<terms[i]>>]

\* C32: while a run's override is in place (the crawl/analyze
\* step is about to run), the filter resource holds exactly the supplied
\* filters in its global-exclusion section and exactly the expanded
\* terms, in order, one keyword group each; nothing of the pre-run content
\* is seen.
C32_OverrideRewritesFilterResource ==
    \A w \in Workers :
        pc[w] = "est_crawl"
            => /\ FiltersSeen = loc[w].args.filters
               /\ GroupsSeen = OneGroupEach(loc[w].expanded_keywords)

C34_RestoreBeforeRecordAndResponse ==
    [][/\ Len(execs') > Len(execs) => (origin.freq /= "override" /\ origin.cfg /= "override")
       /\ \A w \in Workers :
             (req[w].kind \in {"search", "execute"} /\ pc[w] /= "done" /\ pc'[w] = "done"
                  /\ hist[w].crawl /= "none")
                 => (origin.freq /= "override" /\ origin.cfg /= "override")]_vars

\* C35: a /api/run request that arrives while the run lock is held is
\* answered 409 in the step that accepts it, takes no lock and never
\* reaches the subprocess; at most one worker is in the subprocess section
\* of /api/run at any instant.
C35_BusyRunRejectedAtOnce ==
    /\ [](Cardinality({w \in Workers : pc[w] = "run_subprocess"}) <= 1)
    /\ [][\A w \in Workers :
             (pc[w] = "idle" /\ pc'[w] /= "idle" /\ req'[w].kind = "run" /\ RUN_LOCK /= 0)
                 => /\ pc'[w] = "done"
                    /\ resp'[w].status = 409
                    /\ RUN_LOCK' = RUN_LOCK]_vars

C35_Witness ==
    \E w, o \in Workers :
        /\ pc[o] = "run_subprocess" /\ RUN_LOCK = o
        /\ pc[w] = "done" /\ req[w].kind = "run" /\ resp[w].status = 409

\* C36: the run lock is held only while its holder is inside the
\* subprocess section of /api/run: when that handler has ended, by a
\* response of either kind or by an exception, the lock is free; and a
\* /api/run request that arrives when no such handler is running is
\* accepted, not answered 409.
C36_RunLockReleasedOnEveryExit ==
    /\ [](RUN_LOCK /= 0 => pc[RUN_LOCK] = "run_subprocess")
    /\ [][\A w \in Workers :
             (pc[w] = "idle" /\ pc'[w] /= "idle" /\ req'[w].kind = "run"
                  /\ \A o \in Workers : pc[o] /= "run_subprocess")
                 => (pc'[w] = "run_subprocess" /\ RUN_LOCK' = w)]_vars

C36_Witness ==
    \E w, o \in Workers :
        /\ pc[o] = "done" /\ req[o].kind = "run" /\ resp[o].body = "fault"
        /\ pc[w] = "run_subprocess" /\ RUN_LOCK = w /\ hist[w].run > hist[o].run

\* C37: no step of an ad hoc search changes the task store (users, tasks,
\* executions); and a search without keywords, with an empty keyword list
\* or without generate_html is answered 400 in its first step, before the
\* expander is called and with the three files untouched.
C37_AdHocLeavesStoreAlone ==
    [][\A w \in Workers :
          /\ (req'[w].kind = "search" /\ pc'[w] /= pc[w] /\ pc'[w] /= "idle") => store' = store
          /\ (pc[w] = "idle" /\ pc'[w] /= "idle" /\ req'[w].kind = "search"
                  /\ (~IsSome(req'[w].keywords) \/ Get(req'[w].keywords) = <<>>
                          \/ ~IsSome(req'[w].generate_html)))
                 => /\ pc'[w] = "done" /\ resp'[w].status = 400
                    /\ hist'[w].expand = "none" /\ hist'[w].crawl = "none"
                    /\ files' = files]_vars

C37_Witness ==
    \E w \in Workers :
        /\ Answered(w, "search") /\ resp[w].status = 400 /\ req[w].keywords = Some(<<>>)
        /\ hist[w].expand = "none" /\ nreq = 2 /\ store = <<SeededUsers, SeededTasks, <<>>>>

\* C38: every persisted task has a non-empty keywords sequence, whatever
\* CreateTask and UpdateTask requests were served.
C38_PersistedTasksHaveKeywords ==
    \A id \in DOMAIN tasks : json_loads(tasks[id].keywords) /= <<>>

\* C39: every TaskExecution row's task_id is the id of a task in the
\* store and every task's user_id is the id of a user in the store, also
\* after a task was deleted, before or during a run for it.
C39_ReferencesResolve ==
    /\ \A i \in DOMAIN execs : execs[i].task_id \in DOMAIN tasks
    /\ \A id \in DOMAIN tasks : \E u \in DOMAIN users : users[u].id = tasks[id].user_id

\* C40: when a run for a stored task has been answered, every TaskExecution
\* row it recorded with status success belongs to an answer with
\* success = true, also when restoring the resources failed after the
\* row was written.
C40_SuccessRowOnlyForSuccessfulAnswer ==
    \A w \in Workers :
        Answered(w, "execute")
            => \A i \in DOMAIN NewRows(w) :
                  NewRows(w)[i].status = "success" => (resp[w].success /\ resp[w].status = 200)

====
